---- MODULE Spec2Model ----
(***************************************************************************)
(* A model of the adaptive-learning front end: the question generation     *)
(* service (weak/strong classification, difficulty adjustment, adaptive    *)
(* question-mix assembly with its fan-out/join of generation calls) and    *)
(* the concept extraction service (dependency ordering, learning pathway). *)
(*                                                                         *)
(* A JavaScript object is denoted by a record; an object reference to a    *)
(* concept of the caller's array is denoted by the concept's position in   *)
(* that array, so that Array.prototype.includes on references is           *)
(* membership of positions.                                                *)
(***************************************************************************)
EXTENDS Integers, Sequences, FiniteSets, TLC

VARIABLES
    concepts,          \* generateAdaptiveQuestions: the concept array
    userPerformance,   \* generateAdaptiveQuestions: the performance map
    pc,                \* where the running operation stands
    weakConcepts,      \* const weakConcepts (references, weakest first)
    strongConcepts,    \* const strongConcepts (references, strongest first)
    questionPromises,  \* the promises pushed, with the request each one made
    result,            \* the value the operation returned
    error,             \* the message of the Error the operation threw
    adjusted,          \* the value adjustDifficultyForPerformance returned
    argConcepts,       \* createLearningPathway: the argument as it was passed
    extracted,         \* createLearningPathway: the caller's array, as it is now
    learningPathway,   \* the value createLearningPathway returned
    argQuestions,      \* shuffleQuestions: the caller's array, as it is now
    assessmentQuestions,   \* QuestionGenerationAssessment: const [questions, ...]
    currentQuestionIndex,  \* const [currentQuestionIndex, ...], 0-based
    answers,               \* const [answers, ...], by question id
    confidence,            \* const [confidence, ...], by question id
    showValidation,        \* const [showValidation, ...]
    isSubmitting,          \* const [isSubmitting, ...]
    showSummary,           \* const [showSummary, ...]
    sessionTime,           \* const [sessionTime, ...], in seconds
    sessionStatus,         \* const [sessionStatus, ...]
    submitTimers,          \* the submission delays of handleSubmit that run
    saveTimers,            \* the timeouts of the save cycles that run
    lastEvent,             \* the handler or callback of a component that ran last
    file,                  \* validateFile: the argument
    selectedFile,          \* FileUpload: const [selectedFile, ...]
    isProcessing,          \* const [isProcessing, ...]
    processingStep,        \* const [processingStep, ...]
    analysisResult,        \* const [analysisResult, ...]
    sessionStorage,        \* the items of window.sessionStorage
    navigation,            \* the navigate(...) call that is scheduled
    analyzeFileCalls,      \* the files analyzeFile was called with
    operation,             \* the service operation invoked, with its arguments
    apiRequests,           \* the chat.completions.create calls it has made
    response,              \* message.content of the response it received
    mounted,               \* QuestionGenerationAssessment is mounted
    autoSaveInterval,      \* the auto-save interval: the values of the effect's
                           \* dependencies it was set with, and its age in seconds
    eligibleAge            \* history: seconds spent active with an answer
                           \* recorded since a save cycle last started

pathwayVars == <<argConcepts, extracted, learningPathway>>

shuffleVars == <<argQuestions>>

assessmentVars ==
    <<assessmentQuestions, currentQuestionIndex, answers, confidence, showValidation,
      isSubmitting, showSummary, sessionTime, sessionStatus, submitTimers,
      saveTimers>>

uploadVars ==
    <<file, selectedFile, isProcessing, processingStep, analysisResult, sessionStorage,
      navigation, analyzeFileCalls>>

\* the state of the operations and components modelled further down
aiVars == <<operation, apiRequests, response>>

effectVars == <<mounted, autoSaveInterval, eligibleAge>>

componentVars ==
    <<shuffleVars, assessmentVars, lastEvent, uploadVars, aiVars, effectVars>>

vars == <<concepts, userPerformance, pc, weakConcepts, strongConcepts,
          questionPromises, result, error, adjusted, pathwayVars, componentVars>>

\* the state of an operation or component that is not running
ShuffleIdle == argQuestions = <<>>

\* the useState initial values of QuestionGenerationAssessment, no timer set
AssessmentMounted ==
    /\ currentQuestionIndex = 0
    /\ answers = <<>>
    /\ confidence = <<>>
    /\ showValidation = FALSE
    /\ isSubmitting = FALSE
    /\ showSummary = FALSE
    /\ sessionTime = 0
    /\ sessionStatus = "active"
    /\ submitTimers = 0
    /\ saveTimers = [saved |-> 0, active |-> 0]
    /\ lastEvent = "mount"
    /\ mounted = TRUE
    /\ autoSaveInterval = [sessionStatus |-> "active", answered |-> 0, age |-> 0]
    /\ eligibleAge = 0

AssessmentIdle == assessmentQuestions = <<>> /\ AssessmentMounted

\* JavaScript's null
Null == [null |-> TRUE]

\* the useState initial values of FileUpload, nothing stored or scheduled
UploadMounted ==
    /\ selectedFile = Null
    /\ isProcessing = FALSE
    /\ processingStep = ""
    /\ analysisResult = Null
    /\ sessionStorage = <<>>
    /\ navigation = Null
    /\ analyzeFileCalls = <<>>

UploadIdle == file = Null /\ UploadMounted

\* no request made, no response received
NoRequest == apiRequests = 0 /\ response = [none |-> TRUE]

AiIdle == operation = [name |-> ""] /\ NoRequest

ComponentsIdle == ShuffleIdle /\ AssessmentIdle /\ UploadIdle /\ AiIdle

-----------------------------------------------------------------------------
(* Bounds of the model *)

\* longest concept array given to createLearningPathway
MaxPathway == 3
\* longest concept array given to the request-selection step
MaxConcepts == 5
\* longest concept array followed through the whole fan-out and join
MaxJoinConcepts == 2
\* most questions one generation response holds
MaxResp == 3
\* Math.random() takes the values k / RandDen, k in 0 .. RandDen - 1
RandDen == 3
\* longest question list given to shuffleQuestions on its own
MaxShuffle == 3
\* longest question list of the assessment view
MaxQuestions == 3
\* most submission delays of handleSubmit that run at a time
MaxSubmits == 2
\* most save cycles that run at a time
MaxSaves == 2
\* the seconds of session time followed
MaxSessionTime == 2
\* most analyses started in the upload view
MaxUploads == 2

\* longest concept array handed to the assessment view
MaxAssemblyConcepts == 4

\* formatMinutesToTime is explored for 0..MaxMinutes
MaxMinutes == 130

-----------------------------------------------------------------------------
(* Generic helpers *)

Range(s) == {s[i] : i \in 1..Len(s)}

Min(a, b) == IF a < b THEN a ELSE b

\* Array.prototype.slice(0, n)
Slice0(s, n) == SubSeq(s, 1, Min(n, Len(s)))

\* Array.prototype.sort with a compare function: a stable sort (insertion of
\* each element after every element that does not compare greater than it);
\* compareFn[a, b] is the number the compare function returns for a and b
ArraySort(s, compareFn) ==
    LET RECURSIVE InsertStable(_, _)
        InsertStable(x, t) ==
            IF t = <<>> THEN <<x>>
            ELSE IF compareFn[x, Head(t)] < 0 THEN <<x>> \o t
            ELSE <<Head(t)>> \o InsertStable(x, Tail(t))
        RECURSIVE SortFrom(_, _)
        SortFrom(rest, done) ==
            IF rest = <<>> THEN done
            ELSE SortFrom(Tail(rest), InsertStable(Head(rest), done))
    IN  SortFrom(s, <<>>)

\* the references to the elements of an array, in array order
Refs(cs) == [i \in 1..Len(cs) |-> i]

-----------------------------------------------------------------------------
(* QuestionGenerationService: classification *)

\* userPerformance?.[concept?.id] || dflt
PerformanceOf(concept, perf, dflt) ==
    IF concept.id \in DOMAIN perf THEN perf[concept.id] ELSE dflt

\* the weak filter without the test of attempts
IdentifyWeakAreasByMasteryOnly(cs, perf) ==
    LET keep(r) ==
            LET performance == PerformanceOf(cs[r], perf, [masteryLevel |-> 0, attempts |-> 0])
            IN  performance.masteryLevel < 70
        cmp == [a \in DOMAIN cs, b \in DOMAIN cs |->
            LET perfA == PerformanceOf(cs[a], perf, [masteryLevel |-> 0])
                perfB == PerformanceOf(cs[b], perf, [masteryLevel |-> 0])
            IN  perfA.masteryLevel - perfB.masteryLevel]
    IN  ArraySort(SelectSeq(Refs(cs), keep), cmp)

IdentifyWeakAreas(cs, perf) ==
    LET keep(r) ==
            LET performance == PerformanceOf(cs[r], perf, [masteryLevel |-> 0, attempts |-> 0])
            IN  performance.masteryLevel < 70 \/ performance.attempts = 0
        cmp == [a \in DOMAIN cs, b \in DOMAIN cs |->
            LET perfA == PerformanceOf(cs[a], perf, [masteryLevel |-> 0])
                perfB == PerformanceOf(cs[b], perf, [masteryLevel |-> 0])
            IN  perfA.masteryLevel - perfB.masteryLevel]
    IN  ArraySort(SelectSeq(Refs(cs), keep), cmp)

IdentifyStrongAreas(cs, perf) ==
    LET keep(r) ==
            LET performance == PerformanceOf(cs[r], perf, [masteryLevel |-> 0])
            IN  performance.masteryLevel >= 80
        cmp == [a \in DOMAIN cs, b \in DOMAIN cs |->
            LET perfA == PerformanceOf(cs[a], perf, [masteryLevel |-> 0])
                perfB == PerformanceOf(cs[b], perf, [masteryLevel |-> 0])
            IN  perfB.masteryLevel - perfA.masteryLevel]
    IN  ArraySort(SelectSeq(Refs(cs), keep), cmp)

\* the adjustment with the lower threshold taken inclusively
AdjustDifficultyInclusive(concept, perf) ==
    LET performance == PerformanceOf(concept, perf, [masteryLevel |-> 0, attempts |-> 0])
    IN  IF performance.masteryLevel <= 40 THEN "Beginner"
        ELSE IF performance.masteryLevel < 70 THEN "Intermediate"
        ELSE "Advanced"

AdjustDifficultyForPerformance(concept, perf) ==
    LET performance == PerformanceOf(concept, perf, [masteryLevel |-> 0, attempts |-> 0])
    IN  IF performance.masteryLevel < 40 THEN "Beginner"
        ELSE IF performance.masteryLevel < 70 THEN "Intermediate"
        ELSE "Advanced"

-----------------------------------------------------------------------------
(* QuestionGenerationService: one generation call *)

\* the value undefined, as an element of an array
Undefined == [undefined |-> TRUE]

\* what a call returned: an array of questions, or undefined
ArrayValue(items) == [isArray |-> TRUE, items |-> items]
UndefinedValue == [isArray |-> FALSE, items |-> <<>>]

DefaultQuestionTypes == <<"multiple_choice", "true_false", "short_answer">>

\* generateQuestionsForConcept up to its await: the options destructured with
\* their defaults, and the request sent for them
GenerationRequest(cs, ref, options) ==
    [concept |-> ref,
     questionCount |->
        IF "questionCount" \in DOMAIN options THEN options.questionCount ELSE 5,
     questionTypes |->
        IF "questionTypes" \in DOMAIN options THEN options.questionTypes
        ELSE DefaultQuestionTypes,
     difficultyLevel |->
        IF "difficultyLevel" \in DOMAIN options THEN options.difficultyLevel
        ELSE cs[ref].difficulty]

\* the i-th question object of the response to the call of promise r: the
\* service numbers the questions of one response and chooses their text
AiQuestion(r, i) ==
    [id |-> "q" \o ToString(i), question |-> <<r, i>>]

\* generationResult.questions.map(...), lines 116-130
MapQuestions(concept, questions) ==
    [index \in 1..Len(questions) |->
        [id |-> IF questions[index].id # "" THEN questions[index].id
                ELSE concept.id \o "_q" \o ToString(index),
         question |-> questions[index].question,
         conceptId |-> concept.id,
         number |-> index,
         userAnswer |-> "null"]]

-----------------------------------------------------------------------------
(* QuestionGenerationService: shuffleQuestions *)

\* the exchange that writes one side only
SwapOneSide(s, i, j) == [s EXCEPT ![i] = s[j]]

\* [shuffled[i], shuffled[j]] = [shuffled[j], shuffled[i]]
Swap(s, i, j) == [s EXCEPT ![i] = s[j], ![j] = s[i]]

\* the loop of lines 325-328 at (1-based) position p, the draw at position p
\* being rnd[p] / RandDen
RECURSIVE FisherYates(_, _, _)
FisherYates(s, p, rnd) ==
    IF p <= 1 THEN s
    ELSE FisherYates(Swap(s, p, ((rnd[p] * p) \div RandDen) + 1), p - 1, rnd)

\* the renumbering that starts at 0
RenumberFromZero(question, n) ==
    IF question = Undefined THEN [number |-> n - 1]
    ELSE [question EXCEPT !.number = n - 1]

\* { ...question, number: index + 1 }
Renumber(question, n) ==
    IF question = Undefined THEN [number |-> n]
    ELSE [question EXCEPT !.number = n]

ShuffleQuestions(questions, rnd) ==
    LET shuffled == FisherYates(questions, Len(questions), rnd)
    IN  [index \in 1..Len(shuffled) |-> Renumber(shuffled[index], index)]

-----------------------------------------------------------------------------
(* QuestionGenerationService: generateAdaptiveQuestions *)

\* the weak-area requests left at the concept's own difficulty
WeakAreaRequestsOwnDifficulty(cs, perf, weak) ==
    LET request(ref) == GenerationRequest(cs, ref, [questionCount |-> 3])
        chosen == Slice0(weak, 3)
    IN  [i \in 1..Len(chosen) |-> request(chosen[i])]

\* "60% questions from weak areas", lines 153-160
WeakAreaRequests(cs, perf, weak) ==
    LET request(ref) ==
            GenerationRequest(cs, ref,
                [questionCount |-> 3,
                 difficultyLevel |-> AdjustDifficultyForPerformance(cs[ref], perf)])
        chosen == Slice0(weak, 3)
    IN  [i \in 1..Len(chosen) |-> request(chosen[i])]

\* the mixed requests skipping only the weak concepts that got a request
MixedRequestsSkippingSelected(cs, weak) ==
    LET notWeak(ref) == ref \notin Range(Slice0(weak, 3))
        request(ref) ==
            GenerationRequest(cs, ref,
                [questionCount |-> 2,
                 questionTypes |-> <<"multiple_choice", "short_answer">>])
        chosen == SelectSeq(Slice0(Refs(cs), 2), notWeak)
    IN  [i \in 1..Len(chosen) |-> request(chosen[i])]

\* "30% questions from mixed difficulty", lines 163-172
MixedRequests(cs, weak) ==
    LET notWeak(ref) == ref \notin Range(weak)
        request(ref) ==
            GenerationRequest(cs, ref,
                [questionCount |-> 2,
                 questionTypes |-> <<"multiple_choice", "short_answer">>])
        chosen == SelectSeq(Slice0(Refs(cs), 2), notWeak)
    IN  [i \in 1..Len(chosen) |-> request(chosen[i])]

\* the strong-area request made for the last strong concept
StrongAreaRequestsLast(cs, strong) ==
    IF Len(strong) > 0
    THEN <<GenerationRequest(cs, strong[Len(strong)],
                [questionCount |-> 1, difficultyLevel |-> "Advanced"])>>
    ELSE <<>>

\* "10% challenging questions from strong areas", lines 175-182
StrongAreaRequests(cs, strong) ==
    IF Len(strong) > 0
    THEN <<GenerationRequest(cs, strong[1],
                [questionCount |-> 1, difficultyLevel |-> "Advanced"])>>
    ELSE <<>>

Pending(request) ==
    [request |-> request, state |-> "pending", value |-> UndefinedValue, reason |-> ""]

\* a flat that takes the question sets from the last one to the first
RECURSIVE FlatReversed(_)
FlatReversed(sets) ==
    IF sets = <<>> THEN <<>>
    ELSE FlatReversed(Tail(sets))
         \o (IF Head(sets).isArray THEN Head(sets).items ELSE <<Undefined>>)

\* questionSets?.flat(): an array is replaced by its elements, any other
\* value stays as one element
RECURSIVE Flat(_)
Flat(sets) ==
    IF sets = <<>> THEN <<>>
    ELSE (IF Head(sets).isArray THEN Head(sets).items ELSE <<Undefined>>)
         \o Flat(Tail(sets))

\* a join that waits for every promise and never rejects
PromiseAllSettled(promises) ==
    IF \A r \in 1..Len(promises) : promises[r].state # "pending" THEN "fulfilled"
    ELSE "pending"

\* what Promise.all(questionPromises) has settled to
PromiseAll(promises) ==
    IF \E r \in 1..Len(promises) : promises[r].state = "rejected" THEN "rejected"
    ELSE IF \A r \in 1..Len(promises) : promises[r].state = "fulfilled" THEN "fulfilled"
    ELSE "pending"

\* the draws one run of shuffleQuestions takes
RandomStreams(n) == {[p \in 1..n |-> k] : k \in 0..(RandDen - 1)}

\* generateAdaptiveQuestions from its call to its await
GenerateAdaptiveQuestions ==
    /\ pc = "start"
    /\ LET weak == IdentifyWeakAreas(concepts, userPerformance)
           strong == IdentifyStrongAreas(concepts, userPerformance)
           requests == WeakAreaRequests(concepts, userPerformance, weak)
                       \o MixedRequests(concepts, weak)
                       \o StrongAreaRequests(concepts, strong)
       IN  /\ weakConcepts' = weak
           /\ strongConcepts' = strong
           /\ questionPromises' = [r \in 1..Len(requests) |-> Pending(requests[r])]
    /\ pc' = "awaiting"
    /\ UNCHANGED <<concepts, userPerformance, result, error, adjusted>>
    /\ UNCHANGED <<pathwayVars, componentVars>>

\* the response to the call of promise r arrives with k questions
CallReturns(r, k) ==
    /\ pc # "start"
    /\ r \in 1..Len(questionPromises)
    /\ questionPromises[r].state = "pending"
    /\ questionPromises' = [questionPromises EXCEPT
            ![r].state = "fulfilled",
            ![r].value = ArrayValue(
                MapQuestions(concepts[questionPromises[r].request.concept],
                             [i \in 1..k |-> AiQuestion(r, i)]))]
    /\ UNCHANGED <<concepts, userPerformance, pc, weakConcepts, strongConcepts,
                   result, error, adjusted>>
    /\ UNCHANGED <<pathwayVars, componentVars>>

\* the response arrives with the content null (JSON.parse gives null) or
\* without the field questions: the call returns undefined
CallReturnsUndefined(r) ==
    /\ pc # "start"
    /\ r \in 1..Len(questionPromises)
    /\ questionPromises[r].state = "pending"
    /\ questionPromises' = [questionPromises EXCEPT
            ![r].state = "fulfilled", ![r].value = UndefinedValue]
    /\ UNCHANGED <<concepts, userPerformance, pc, weakConcepts, strongConcepts,
                   result, error, adjusted>>
    /\ UNCHANGED <<pathwayVars, componentVars>>

\* the request or the parse of its response throws: the call throws
\* 'Failed to generate questions for concept', and an awaiting
\* generateAdaptiveQuestions catches the rejection of Promise.all
CallThrows(r) ==
    /\ pc # "start"
    /\ r \in 1..Len(questionPromises)
    /\ questionPromises[r].state = "pending"
    /\ questionPromises' = [questionPromises EXCEPT
            ![r].state = "rejected",
            ![r].reason = "Failed to generate questions for concept"]
    /\ IF pc = "awaiting" /\ PromiseAll(questionPromises') = "rejected"
       THEN /\ pc' = "failed"
            /\ error' = "Failed to generate adaptive questions"
       ELSE UNCHANGED <<pc, error>>
    /\ UNCHANGED <<concepts, userPerformance, weakConcepts, strongConcepts,
                   result, adjusted>>
    /\ UNCHANGED <<pathwayVars, componentVars>>

\* every promise is fulfilled: the await resumes, lines 184-188
ReturnQuestions ==
    /\ pc = "awaiting"
    /\ PromiseAll(questionPromises) = "fulfilled"
    /\ LET questionSets ==
               [r \in 1..Len(questionPromises) |-> questionPromises[r].value]
           allQuestions == Flat(questionSets)
       IN  \E rnd \in RandomStreams(Len(allQuestions)) :
               result' = ShuffleQuestions(allQuestions, rnd)
    /\ pc' = "done"
    /\ UNCHANGED <<concepts, userPerformance, weakConcepts, strongConcepts,
                   questionPromises, error, adjusted>>
    /\ UNCHANGED <<pathwayVars, componentVars>>

-----------------------------------------------------------------------------
(* The inputs of the model *)

\* the difficulty the extraction gave the i-th concept
ConceptDifficulty(i) ==
    CASE i % 3 = 1 -> "Advanced"
      [] i % 3 = 2 -> "Beginner"
      [] OTHER     -> "Intermediate"

ConceptId(i) == "concept_" \o ToString(i)

ConceptList(n) == [i \in 1..n |-> [id |-> ConceptId(i), difficulty |-> ConceptDifficulty(i)]]

\* the performance maps over the ids of a list of n concepts, each concept
\* either absent from the map or with one of the records
PerformanceMaps(n, records) ==
    UNION {[{ConceptId(i) : i \in D} -> records] : D \in SUBSET (1..n)}

\* mastery levels on both sides of the thresholds 70 and 80, and the record
\* of a concept of high mastery never attempted
SelectRecords ==
    [masteryLevel : {69, 70, 79, 80, 95}, attempts : {2}]
    \cup {[masteryLevel |-> 80, attempts |-> 0]}

JoinRecords ==
    {[masteryLevel |-> 20, attempts |-> 1], [masteryLevel |-> 75, attempts |-> 1],
     [masteryLevel |-> 90, attempts |-> 1], [masteryLevel |-> 90, attempts |-> 0]}

AdaptiveStart ==
    /\ pc = "start"
    /\ weakConcepts = <<>>
    /\ strongConcepts = <<>>
    /\ questionPromises = <<>>
    /\ result = <<>>
    /\ error = ""
    /\ adjusted = ""
    /\ argConcepts = UndefinedValue
    /\ extracted = UndefinedValue
    /\ learningPathway = [pathway |-> <<>>]
    /\ ComponentsIdle

\* the request selection of generateAdaptiveQuestions
InitSelect ==
    /\ \E n \in 0..MaxConcepts :
          /\ concepts = ConceptList(n)
          /\ userPerformance \in PerformanceMaps(n, SelectRecords)
    /\ AdaptiveStart

SpecSelect == InitSelect /\ [][GenerateAdaptiveQuestions]_vars

\* generateAdaptiveQuestions with its calls in flight
InitAdaptive ==
    /\ \E n \in 0..MaxJoinConcepts :
          /\ concepts = ConceptList(n)
          /\ userPerformance \in PerformanceMaps(n, JoinRecords)
    /\ AdaptiveStart

NextAdaptive ==
    \/ GenerateAdaptiveQuestions
    \/ \E r \in 1..Len(questionPromises), k \in 0..MaxResp : CallReturns(r, k)
    \/ \E r \in 1..Len(questionPromises) : CallReturnsUndefined(r)
    \/ \E r \in 1..Len(questionPromises) : CallThrows(r)
    \/ ReturnQuestions

SpecAdaptive == InitAdaptive /\ [][NextAdaptive]_vars

\* adjustDifficultyForPerformance on the first of two concepts, for every
\* mastery level of the first and some records of the second
InitDifficulty ==
    /\ concepts = ConceptList(2)
    /\ userPerformance \in
          {f \in PerformanceMaps(2, [masteryLevel : 0..100, attempts : {0, 2}]) :
              ConceptId(2) \in DOMAIN f =>
                  f[ConceptId(2)].masteryLevel \in {0, 100} /\ f[ConceptId(2)].attempts = 2}
    /\ AdaptiveStart

AdjustDifficulty ==
    /\ pc = "start"
    /\ adjusted' = AdjustDifficultyForPerformance(concepts[1], userPerformance)
    /\ pc' = "done"
    /\ UNCHANGED <<concepts, userPerformance, weakConcepts, strongConcepts,
                   questionPromises, result, error>>
    /\ UNCHANGED <<pathwayVars, componentVars>>

SpecDifficulty == InitDifficulty /\ [][AdjustDifficulty]_vars

-----------------------------------------------------------------------------
(* The claims about the adaptive question mix *)

Requests == [r \in 1..Len(questionPromises) |-> questionPromises[r].request]

RequestsOfCount(n) == SelectSeq(Requests, LAMBDA q : q.questionCount = n)

\* the recorded mastery level and attempts of a concept, 0 when it has no record
Mastery(ref) ==
    IF concepts[ref].id \in DOMAIN userPerformance
    THEN userPerformance[concepts[ref].id].masteryLevel ELSE 0

Attempts(ref) ==
    IF concepts[ref].id \in DOMAIN userPerformance
    THEN userPerformance[concepts[ref].id].attempts ELSE 0

\* C1: once generateAdaptiveQuestions has issued its requests, the requests
\* for 3 questions are exactly one for each of the first min(3, number of weak
\* concepts) entries of the result of identifyWeakAreas, in that order, and
\* each asks for the difficulty adjustDifficultyForPerformance gives.
WeakAreaAllocation ==
    pc # "start" =>
        LET chosen == Min(3, Len(weakConcepts))
            threes == RequestsOfCount(3)
        IN  /\ Len(threes) = chosen
            /\ \A i \in 1..chosen :
                  /\ threes[i].concept = weakConcepts[i]
                  /\ threes[i].difficultyLevel =
                        AdjustDifficultyForPerformance(concepts[weakConcepts[i]],
                                                       userPerformance)

\* more than three concepts are weak, and a weak-area request asks for a
\* difficulty that is not the concept's own
WeakAreaWitness ==
    /\ pc = "awaiting"
    /\ Len(weakConcepts) > 3
    /\ \E q \in Range(RequestsOfCount(3)) :
          q.difficultyLevel # concepts[q.concept].difficulty

\* C2: a request for 2 questions is issued for a concept exactly when the
\* concept is one of the first two of the concept array and is not in the
\* result of identifyWeakAreas; the requests for 2 questions are the ones
\* with the types multiple_choice and short_answer.
MixedAllocation ==
    pc # "start" =>
        /\ \A ref \in 1..Len(concepts) :
              LET twos == SelectSeq(RequestsOfCount(2), LAMBDA q : q.concept = ref)
              IN  Len(twos) = IF ref <= 2 /\ ref \notin Range(weakConcepts) THEN 1 ELSE 0
        /\ \A q \in Range(Requests) :
              q.questionCount = 2 <=> q.questionTypes = <<"multiple_choice", "short_answer">>

\* one of the first two concepts is weak without being one of the three
\* weakest, the other is not weak and has its request
MixedWitness ==
    /\ pc = "awaiting"
    /\ \E i \in 4..Len(weakConcepts) : weakConcepts[i] <= 2
    /\ RequestsOfCount(2) # <<>>

\* C3: when some concept has a mastery level of at least 80, exactly one
\* request for 1 question is issued, for a concept whose mastery level no
\* concept exceeds, at the difficulty Advanced; when none has, no request
\* for 1 question is issued.
StrongAllocation ==
    pc # "start" =>
        LET ones == RequestsOfCount(1)
        IN  IF \E ref \in 1..Len(concepts) : Mastery(ref) >= 80
            THEN /\ Len(ones) = 1
                 /\ ones[1].difficultyLevel = "Advanced"
                 /\ \A ref \in 1..Len(concepts) : Mastery(ref) <= Mastery(ones[1].concept)
                 /\ ones[1] = Requests[Len(Requests)]
            ELSE Len(ones) = 0

\* two concepts are strong and the stronger one stands later in the array
StrongWitness ==
    /\ pc = "awaiting"
    /\ \E a, b \in 1..Len(concepts) :
          /\ a < b
          /\ Mastery(a) >= 80
          /\ Mastery(b) > Mastery(a)
          /\ RequestsOfCount(1) # <<>>
          /\ RequestsOfCount(1)[1].concept = b

-----------------------------------------------------------------------------
(* The claims about the join of the generation calls *)

RECURSIVE SumSeq(_)
SumSeq(s) == IF s = <<>> THEN 0 ELSE Head(s) + SumSeq(Tail(s))

\* the number of entries a settled call contributes to the flattened array
Contribution(p) == IF p.value.isArray THEN Len(p.value.items) ELSE 1

\* the positions of the returned array that hold the question the call of
\* promise r returned at position i
PositionsOf(r, i) ==
    {n \in 1..Len(result) :
        /\ "question" \in DOMAIN result[n]
        /\ result[n] = [questionPromises[r].value.items[i] EXCEPT !.number = n]}

\* C4 as stated: the returned set has as many questions as the requests
\* asked for, each question of a call once.
CountAsRequested ==
    pc = "done" =>
        /\ Len(result) = SumSeq([r \in 1..Len(Requests) |-> Requests[r].questionCount])
        /\ \A r \in 1..Len(questionPromises) :
              \A i \in 1..Len(questionPromises[r].value.items) :
                  Cardinality(PositionsOf(r, i)) = 1

\* C4, amended: the returned set holds every question the calls returned
\* exactly once, changed in its number only, one entry without content for
\* each call that returned no question array, and nothing else; its entries
\* are numbered 1..N.
EveryReturnedQuestionOnce ==
    pc = "done" =>
        /\ Len(result) = SumSeq([r \in 1..Len(questionPromises) |-> Contribution(questionPromises[r])])
        /\ \A r \in 1..Len(questionPromises) :
              \A i \in 1..Len(questionPromises[r].value.items) :
                  Cardinality(PositionsOf(r, i)) = 1
        /\ Cardinality({n \in 1..Len(result) : "question" \notin DOMAIN result[n]})
              = Cardinality({r \in 1..Len(questionPromises) :
                                ~questionPromises[r].value.isArray})
        /\ \A n \in 1..Len(result) : result[n].number = n

\* every call returned a question array, three calls were joined, one of
\* them returned fewer questions than asked for, and the shuffle moved a
\* question
JoinWitness ==
    /\ pc = "done"
    /\ Len(questionPromises) = 3
    /\ \A r \in 1..Len(questionPromises) : questionPromises[r].value.isArray
    /\ \E r \in 1..Len(questionPromises) :
          /\ Len(questionPromises[r].value.items) > 0
          /\ Len(questionPromises[r].value.items) < questionPromises[r].request.questionCount
    /\ Len(questionPromises[1].value.items) > 0
    /\ result[1].question # questionPromises[1].value.items[1].question

\* C5: a generation call that failed leaves generateAdaptiveQuestions
\* failed with the one error 'Failed to generate adaptive questions' and
\* without a returned question, whatever the other calls did.
FailureAbortsAssembly ==
    (\E r \in 1..Len(questionPromises) : questionPromises[r].state = "rejected") =>
        /\ pc = "failed"
        /\ error = "Failed to generate adaptive questions"
        /\ result = <<>>

\* the last call failed after the first one had returned its questions and
\* while the second one was still in flight
FailureWitness ==
    /\ pc = "failed"
    /\ Len(questionPromises) = 3
    /\ questionPromises[3].state = "rejected"
    /\ questionPromises[1].state = "fulfilled"
    /\ Len(questionPromises[1].value.items) = 3
    /\ questionPromises[2].state = "pending"

-----------------------------------------------------------------------------
(* The claims about the classification *)

\* C6: identifyWeakAreas returns exactly the concepts with a mastery level
\* below 70 or no attempt, each once, in ascending order of mastery level;
\* identifyStrongAreas exactly those with a mastery level of at least 80,
\* each once, in descending order; a concept without a record is in the
\* first and not in the second.
WeakStrongClassification ==
    pc # "start" =>
        /\ Range(weakConcepts) =
              {ref \in 1..Len(concepts) : Mastery(ref) < 70 \/ Attempts(ref) = 0}
        /\ Cardinality(Range(weakConcepts)) = Len(weakConcepts)
        /\ \A i \in 1..(Len(weakConcepts) - 1) :
              Mastery(weakConcepts[i]) <= Mastery(weakConcepts[i + 1])
        /\ Range(strongConcepts) = {ref \in 1..Len(concepts) : Mastery(ref) >= 80}
        /\ Cardinality(Range(strongConcepts)) = Len(strongConcepts)
        /\ \A i \in 1..(Len(strongConcepts) - 1) :
              Mastery(strongConcepts[i]) >= Mastery(strongConcepts[i + 1])
        /\ \A ref \in 1..Len(concepts) :
              concepts[ref].id \notin DOMAIN userPerformance =>
                  ref \in Range(weakConcepts) /\ ref \notin Range(strongConcepts)

\* the classification reordered both results, kept a never attempted
\* concept of high mastery as weak, and met a concept without a record
ClassificationWitness ==
    /\ pc = "awaiting"
    /\ \E i, j \in 1..Len(weakConcepts) : i < j /\ weakConcepts[i] > weakConcepts[j]
    /\ \E i, j \in 1..Len(strongConcepts) : i < j /\ strongConcepts[i] > strongConcepts[j]
    /\ \E ref \in Range(weakConcepts) : Mastery(ref) >= 70
    /\ \E ref \in 1..Len(concepts) : concepts[ref].id \notin DOMAIN userPerformance

\* C7: adjustDifficultyForPerformance gives Beginner below 40, Intermediate
\* from 40 to 69 and Advanced from 70 on, by the mastery level of the
\* concept's own record alone, and Beginner for a concept without a record.
DifficultyBuckets ==
    pc = "done" =>
        /\ adjusted \in {"Beginner", "Intermediate", "Advanced"}
        /\ adjusted = "Beginner" <=> Mastery(1) < 40
        /\ adjusted = "Intermediate" <=> (40 <= Mastery(1) /\ Mastery(1) < 70)
        /\ adjusted = "Advanced" <=> Mastery(1) >= 70
        /\ concepts[1].id \notin DOMAIN userPerformance => adjusted = "Beginner"

\* the boundary 40, with another concept recorded at mastery level 100
DifficultyWitness ==
    /\ pc = "done"
    /\ Mastery(1) = 40
    /\ adjusted = "Intermediate"
    /\ Mastery(2) = 100

-----------------------------------------------------------------------------
(* Strings, as sequences of characters *)

UpperCase == <<"A", "B", "C", "D", "E", "F", "G", "H", "I", "J", "K", "L", "M",
               "N", "O", "P", "Q", "R", "S", "T", "U", "V", "W", "X", "Y", "Z">>

LowerCase == <<"a", "b", "c", "d", "e", "f", "g", "h", "i", "j", "k", "l", "m",
               "n", "o", "p", "q", "r", "s", "t", "u", "v", "w", "x", "y", "z">>

DigitChars == <<"0", "1", "2", "3", "4", "5", "6", "7", "8", "9">>

\* String.prototype.toLowerCase
ToLowerCase(str) ==
    [i \in 1..Len(str) |->
        IF \E k \in 1..Len(UpperCase) : UpperCase[k] = str[i]
        THEN LowerCase[CHOOSE k \in 1..Len(UpperCase) : UpperCase[k] = str[i]]
        ELSE str[i]]

\* whether part occurs in str at position i
OccursAt(str, part, i) ==
    /\ i + Len(part) - 1 <= Len(str)
    /\ \A k \in 1..Len(part) : str[i + k - 1] = part[k]

\* String.prototype.includes
Includes(str, part) == \E i \in 1..(Len(str) + 1) : OccursAt(str, part, i)

\* the decimal digits of a number, as a template literal writes it
RECURSIVE NumberToString(_)
NumberToString(n) ==
    IF n < 10 THEN <<DigitChars[n + 1]>>
    ELSE NumberToString(n \div 10) \o <<DigitChars[(n % 10) + 1]>>

-----------------------------------------------------------------------------
(* ConceptExtractionService: time utilities *)

IsDigit(c) == \E k \in 1..Len(DigitChars) : DigitChars[k] = c

\* \s of a regular expression, among the characters of the model
IsSpace(c) == c \in {" ", "\t", "\n"}

\* the length of the longest run of characters satisfying a class from i on
RECURSIVE DigitRun(_, _)
DigitRun(str, i) ==
    IF i <= Len(str) /\ IsDigit(str[i]) THEN 1 + DigitRun(str, i + 1) ELSE 0

RECURSIVE SpaceRun(_, _)
SpaceRun(str, i) ==
    IF i <= Len(str) /\ IsSpace(str[i]) THEN 1 + SpaceRun(str, i + 1) ELSE 0

\* the alternative of (min|hour|hr) that matches at i, letter case ignored
UnitAt(str, i) ==
    LET lower == ToLowerCase(str)
    IN  IF OccursAt(lower, <<"m", "i", "n">>, i) THEN <<"m", "i", "n">>
        ELSE IF OccursAt(lower, <<"h", "o", "u", "r">>, i) THEN <<"h", "o", "u", "r">>
        ELSE IF OccursAt(lower, <<"h", "r">>, i) THEN <<"h", "r">>
        ELSE <<>>

\* whether /(\d+)\s*(min|hour|hr)/i matches from position i
MatchesAt(str, i) ==
    LET digits == DigitRun(str, i)
    IN  /\ digits > 0
        /\ UnitAt(str, i + digits + SpaceRun(str, i + digits)) # <<>>

\* parseInt of a run of digits
RECURSIVE ParseInt(_)
ParseInt(digits) ==
    IF digits = <<>> THEN 0
    ELSE 10 * ParseInt(SubSeq(digits, 1, Len(digits) - 1))
         + (CHOOSE d \in 0..9 : DigitChars[d + 1] = digits[Len(digits)])

\* parseTimeToMinutes multiplying by 60 for the unit hour only
ParseTimeToMinutesHourOnly(concept) ==
    IF "estimatedTime" \notin DOMAIN concept \/ concept.estimatedTime = <<>> THEN 15
    ELSE LET timeString == concept.estimatedTime
             starts == {i \in 1..Len(timeString) : MatchesAt(timeString, i)}
         IN  IF starts = {} THEN 15
             ELSE LET i == CHOOSE k \in starts : \A m \in starts : k <= m
                      digits == DigitRun(timeString, i)
                      value == ParseInt(SubSeq(timeString, i, i + digits - 1))
                      unit == ToLowerCase(
                          UnitAt(timeString, i + digits + SpaceRun(timeString, i + digits)))
                  IN  IF Includes(unit, <<"h", "o", "u", "r">>)
                      THEN value * 60 ELSE value

\* parseTimeToMinutes of a concept's estimatedTime (a concept without the
\* field passes undefined)
ParseTimeToMinutes(concept) ==
    IF "estimatedTime" \notin DOMAIN concept \/ concept.estimatedTime = <<>> THEN 15
    ELSE LET timeString == concept.estimatedTime
             starts == {i \in 1..Len(timeString) : MatchesAt(timeString, i)}
         IN  IF starts = {} THEN 15
             ELSE LET i == CHOOSE k \in starts : \A m \in starts : k <= m
                      digits == DigitRun(timeString, i)
                      value == ParseInt(SubSeq(timeString, i, i + digits - 1))
                      unit == ToLowerCase(
                          UnitAt(timeString, i + digits + SpaceRun(timeString, i + digits)))
                  IN  IF Includes(unit, <<"h", "o", "u", "r">>) \/ Includes(unit, <<"h", "r">>)
                      THEN value * 60 ELSE value

\* formatMinutesToTime without the plural of hour
FormatMinutesToTimeSingular(minutes) ==
    IF minutes < 60 THEN NumberToString(minutes) \o <<" ", "m", "i", "n">>
    ELSE LET hours == minutes \div 60
             remainingMinutes == minutes % 60
         IN  IF remainingMinutes = 0
             THEN NumberToString(hours) \o <<" ", "h", "o", "u", "r">>
             ELSE NumberToString(hours) \o <<"h", " ">>
                  \o NumberToString(remainingMinutes) \o <<"m", "i", "n">>

\* formatMinutesToTime, lines 198-211
FormatMinutesToTime(minutes) ==
    IF minutes < 60 THEN NumberToString(minutes) \o <<" ", "m", "i", "n">>
    ELSE LET hours == minutes \div 60
             remainingMinutes == minutes % 60
         IN  IF remainingMinutes = 0
             THEN NumberToString(hours) \o <<" ", "h", "o", "u", "r">>
                  \o (IF hours > 1 THEN <<"s">> ELSE <<>>)
             ELSE NumberToString(hours) \o <<"h", " ">>
                  \o NumberToString(remainingMinutes) \o <<"m", "i", "n">>

-----------------------------------------------------------------------------
(* ConceptExtractionService: the learning pathway *)

\* { ...object, ...more }
Spread(object, more) ==
    [f \in (DOMAIN object) \cup (DOMAIN more) |->
        IF f \in DOMAIN more THEN more[f] ELSE object[f]]

\* difficultyOrder?.[a?.difficulty] || 2
DifficultyRank(concept) ==
    IF "difficulty" \notin DOMAIN concept THEN 2
    ELSE CASE concept.difficulty = "Beginner" -> 1
           [] concept.difficulty = "Intermediate" -> 2
           [] concept.difficulty = "Advanced" -> 3
           [] OTHER -> 2

\* a?.prerequisites?.length || 0
PrerequisiteCount(concept) ==
    IF "prerequisites" \notin DOMAIN concept THEN 0 ELSE Len(concept.prerequisites)

\* the sort that orders by the number of prerequisites alone
SortConceptsByPrerequisitesOnly(cs) ==
    LET cmp == [a \in DOMAIN cs, b \in DOMAIN cs |->
                    PrerequisiteCount(cs[a]) - PrerequisiteCount(cs[b])]
        order == ArraySort(Refs(cs), cmp)
    IN  [i \in 1..Len(cs) |-> cs[order[i]]]

\* sortConceptsByDependency: the array after concepts.sort(...), which sorts
\* the array it is called on and returns it
SortConceptsByDependency(cs) ==
    LET cmp == [a \in DOMAIN cs, b \in DOMAIN cs |->
                    LET diffA == DifficultyRank(cs[a])
                        diffB == DifficultyRank(cs[b])
                    IN  IF diffA # diffB THEN diffA - diffB
                        ELSE PrerequisiteCount(cs[a]) - PrerequisiteCount(cs[b])]
        order == ArraySort(Refs(cs), cmp)
    IN  [i \in 1..Len(cs) |-> cs[order[i]]]

\* the test of lines 166-172 for one other concept
IsDependency(concept, otherConcept) ==
    /\ otherConcept.id # concept.id
    /\ \E p \in 1..Len(concept.prerequisites) :
          LET prereq == ToLowerCase(concept.prerequisites[p])
          IN  \/ /\ "name" \in DOMAIN otherConcept
                 /\ Includes(ToLowerCase(otherConcept.name), prereq)
              \/ /\ "subConcepts" \in DOMAIN otherConcept
                 /\ \E k \in 1..Len(otherConcept.subConcepts) :
                       Includes(ToLowerCase(otherConcept.subConcepts[k]), prereq)

\* the dependencies found with the letter case kept
FindDependenciesCaseSensitive(concept, allConcepts) ==
    IF PrerequisiteCount(concept) = 0 THEN <<>>
    ELSE LET matches(ref) ==
                 /\ allConcepts[ref].id # concept.id
                 /\ \E p \in 1..Len(concept.prerequisites) :
                       \/ Includes(allConcepts[ref].name, concept.prerequisites[p])
                       \/ /\ "subConcepts" \in DOMAIN allConcepts[ref]
                          /\ \E k \in 1..Len(allConcepts[ref].subConcepts) :
                                Includes(allConcepts[ref].subConcepts[k],
                                         concept.prerequisites[p])
             deps == SelectSeq(Refs(allConcepts), matches)
         IN  [i \in 1..Len(deps) |-> allConcepts[deps[i]].id]

FindDependencies(concept, allConcepts) ==
    IF PrerequisiteCount(concept) = 0 THEN <<>>
    ELSE LET matches(ref) == IsDependency(concept, allConcepts[ref])
             deps == SelectSeq(Refs(allConcepts), matches)
         IN  [i \in 1..Len(deps) |-> allConcepts[deps[i]].id]

CalculateDifficultyDistribution(cs) ==
    [d \in {"Beginner", "Intermediate", "Advanced"} |->
        Cardinality({i \in 1..Len(cs) :
            "difficulty" \in DOMAIN cs[i] /\ cs[i].difficulty = d})]

RECURSIVE TotalMinutes(_)
TotalMinutes(cs) ==
    IF cs = <<>> THEN 0
    ELSE TotalMinutes(SubSeq(cs, 1, Len(cs) - 1)) + ParseTimeToMinutes(cs[Len(cs)])

\* the pathway entries that unlock the first two concepts
PathwayEntriesTwoUnlocked(sortedConcepts) ==
    [index \in 1..Len(sortedConcepts) |->
        Spread(sortedConcepts[index],
               [order |-> index,
                isUnlocked |-> (index <= 2),
                dependencies |-> FindDependencies(sortedConcepts[index], sortedConcepts)])]

\* sortedConcepts.map(...), lines 119-124 (index the 1-based position)
PathwayEntries(sortedConcepts) ==
    [index \in 1..Len(sortedConcepts) |->
        Spread(sortedConcepts[index],
               [order |-> index,
                isUnlocked |-> (index = 1),
                dependencies |-> FindDependencies(sortedConcepts[index], sortedConcepts)])]

\* createLearningPathway sorting a copy of its argument
CreateLearningPathwayOnCopy ==
    /\ pc = "start"
    /\ IF ~extracted.isArray \/ Len(extracted.items) = 0
       THEN learningPathway' =
                [pathway |-> <<>>, totalEstimatedTime |-> <<"0", " ", "m", "i", "n">>]
       ELSE LET sortedConcepts == SortConceptsByDependency(extracted.items)
            IN  learningPathway' =
                    [pathway |-> PathwayEntries(sortedConcepts),
                     totalEstimatedTime |->
                         FormatMinutesToTime(TotalMinutes(sortedConcepts)),
                     totalConcepts |-> Len(sortedConcepts),
                     difficultyDistribution |->
                         CalculateDifficultyDistribution(sortedConcepts)]
    /\ pc' = "done"
    /\ UNCHANGED <<concepts, userPerformance, weakConcepts, strongConcepts,
                   questionPromises, result, error, adjusted, argConcepts,
                   extracted, componentVars>>

\* createLearningPathway(extracted)
CreateLearningPathway ==
    /\ pc = "start"
    /\ IF ~extracted.isArray \/ Len(extracted.items) = 0
       THEN /\ learningPathway' =
                 [pathway |-> <<>>, totalEstimatedTime |-> <<"0", " ", "m", "i", "n">>]
            /\ UNCHANGED extracted
       ELSE LET sortedConcepts == SortConceptsByDependency(extracted.items)
            IN  /\ extracted' = ArrayValue(sortedConcepts)
                /\ learningPathway' =
                      [pathway |-> PathwayEntries(sortedConcepts),
                       totalEstimatedTime |->
                           FormatMinutesToTime(TotalMinutes(sortedConcepts)),
                       totalConcepts |-> Len(sortedConcepts),
                       difficultyDistribution |->
                           CalculateDifficultyDistribution(sortedConcepts)]
    /\ pc' = "done"
    /\ UNCHANGED <<concepts, userPerformance, weakConcepts, strongConcepts,
                   questionPromises, result, error, adjusted, argConcepts,
                   componentVars>>

-----------------------------------------------------------------------------
(* The inputs of createLearningPathway *)

NoField == [f \in {} |-> f]

\* what the extraction gave the i-th concept besides its difficulty and its
\* prerequisites
ExtractedConcept(i) ==
    CASE i % 4 = 1 -> [id |-> ConceptId(i), name |-> <<"A", "b">>,
                       estimatedTime |-> <<"4", "5", " ", "m", "i", "n">>]
      [] i % 4 = 2 -> [id |-> ConceptId(i), name |-> <<"c">>,
                       subConcepts |-> << <<"d">> >>,
                       estimatedTime |-> <<"2", " ", "H", "o", "u", "r", "s">>]
      [] i % 4 = 3 -> [id |-> ConceptId(i), name |-> <<"d">>,
                       subConcepts |-> << <<"e">>, <<"x", "A">> >>]
      [] OTHER     -> [id |-> ConceptId(i), name |-> <<"e">>,
                       subConcepts |-> <<>>,
                       estimatedTime |-> <<"s", "o", "o", "n">>]

DifficultyFields ==
    {NoField} \cup {[difficulty |-> d] :
                        d \in {"Beginner", "Intermediate", "Advanced", "Expert"}}

PrerequisiteFields ==
    {NoField} \cup {[prerequisites |-> p] :
                        p \in {<<>>, << <<"a">> >>, << <<"B">>, <<"c">> >>}}

AdaptiveIdle ==
    /\ concepts = <<>>
    /\ userPerformance = <<>>
    /\ weakConcepts = <<>>
    /\ strongConcepts = <<>>
    /\ questionPromises = <<>>
    /\ result = <<>>
    /\ error = ""
    /\ adjusted = ""

InitPathway ==
    /\ pc = "start"
    /\ AdaptiveIdle
    /\ \/ argConcepts = UndefinedValue
       \/ \E n \in 0..MaxPathway :
             \E ds \in [1..n -> DifficultyFields], ps \in [1..n -> PrerequisiteFields] :
                 argConcepts = ArrayValue(
                     [i \in 1..n |-> Spread(Spread(ExtractedConcept(i), ds[i]), ps[i])])
    /\ extracted = argConcepts
    /\ learningPathway = [pathway |-> <<>>]
    /\ ComponentsIdle

SpecPathway == InitPathway /\ [][CreateLearningPathway]_vars

-----------------------------------------------------------------------------
(* The claims about the learning pathway *)

\* the rank and the number of prerequisites the ordering is claimed to use
ClaimedRank(concept) ==
    IF "difficulty" \in DOMAIN concept /\ concept.difficulty = "Beginner" THEN 1
    ELSE IF "difficulty" \in DOMAIN concept /\ concept.difficulty = "Advanced" THEN 3
    ELSE 2

ClaimedCount(concept) ==
    IF "prerequisites" \in DOMAIN concept THEN Len(concept.prerequisites) ELSE 0

\* the position of a concept of the argument in the sorted array
SortedPosition(concept) ==
    CHOOSE j \in 1..Len(extracted.items) : extracted.items[j] = concept

PathwayCreated == pc = "done" /\ argConcepts.isArray /\ Len(argConcepts.items) > 0

\* C8: the array sortConceptsByDependency leaves and returns is a permutation
\* of the argument, non-decreasing in difficulty rank, non-decreasing in the
\* number of prerequisites between neighbours of equal rank, with concepts
\* equal in both keys in their original order; the pathway follows it.
SortedByDependency ==
    PathwayCreated =>
        LET given == argConcepts.items
            sorted == extracted.items
        IN  /\ Len(sorted) = Len(given)
            /\ \A i \in 1..Len(given) :
                  Cardinality({j \in 1..Len(sorted) : sorted[j] = given[i]}) = 1
            /\ \A j \in 1..(Len(sorted) - 1) :
                  /\ ClaimedRank(sorted[j]) <= ClaimedRank(sorted[j + 1])
                  /\ ClaimedRank(sorted[j]) = ClaimedRank(sorted[j + 1]) =>
                        ClaimedCount(sorted[j]) <= ClaimedCount(sorted[j + 1])
            /\ \A i, k \in 1..Len(given) :
                  (/\ i < k
                   /\ ClaimedRank(given[i]) = ClaimedRank(given[k])
                   /\ ClaimedCount(given[i]) = ClaimedCount(given[k]))
                  => SortedPosition(given[i]) < SortedPosition(given[k])
            /\ \A j \in 1..Len(sorted) : learningPathway.pathway[j].id = sorted[j].id

\* the sort moved the last concept to the front, two concepts are equal in
\* both keys (one by an unknown, one by a missing difficulty), and two of
\* equal rank differ in their number of prerequisites
SortWitness ==
    /\ PathwayCreated
    /\ Len(argConcepts.items) = 3
    /\ extracted.items[1] = argConcepts.items[3]
    /\ \E i, k \in 1..3 :
          /\ i < k
          /\ "difficulty" \notin DOMAIN argConcepts.items[i]
          /\ "difficulty" \in DOMAIN argConcepts.items[k]
          /\ argConcepts.items[k].difficulty = "Expert"
          /\ ClaimedCount(argConcepts.items[i]) = ClaimedCount(argConcepts.items[k])
    /\ \E j \in 1..2 :
          /\ ClaimedRank(extracted.items[j]) = ClaimedRank(extracted.items[j + 1])
          /\ ClaimedCount(extracted.items[j]) < ClaimedCount(extracted.items[j + 1])

\* C9: the entry at the first position is the only unlocked one and the
\* entry at 0-based position i has the order i + 1; for an empty or missing
\* array the result is the empty pathway with totalEstimatedTime '0 min'.
FirstEntryUnlocked ==
    pc = "done" =>
        IF ~argConcepts.isArray \/ Len(argConcepts.items) = 0
        THEN learningPathway =
                [pathway |-> <<>>, totalEstimatedTime |-> <<"0", " ", "m", "i", "n">>]
        ELSE /\ Len(learningPathway.pathway) = Len(argConcepts.items)
             /\ \A i \in 0..(Len(learningPathway.pathway) - 1) :
                   /\ learningPathway.pathway[i + 1].order = i + 1
                   /\ learningPathway.pathway[i + 1].isUnlocked <=> (i = 0)

\* a pathway of three entries
UnlockWitness ==
    /\ PathwayCreated
    /\ Len(learningPathway.pathway) = 3
    /\ learningPathway.pathway[1].isUnlocked
    /\ learningPathway.pathway[1].id # argConcepts.items[1].id

\* two characters that are the same letter, whatever their case
SameLetter(x, y) ==
    \/ x = y
    \/ \E k \in 1..Len(UpperCase) : {x, y} = {UpperCase[k], LowerCase[k]}

\* part is a substring of str, letter case ignored
SubstringIgnoringCase(part, str) ==
    \E i \in 0..(Len(str) - Len(part)) :
        \A k \in 1..Len(part) : SameLetter(str[i + k], part[k])

\* the concepts a prerequisite of concept names
ClaimedDependency(concept, other) ==
    /\ other.id # concept.id
    /\ "prerequisites" \in DOMAIN concept
    /\ \E p \in 1..Len(concept.prerequisites) :
          \/ SubstringIgnoringCase(concept.prerequisites[p], other.name)
          \/ /\ "subConcepts" \in DOMAIN other
             /\ \E k \in 1..Len(other.subConcepts) :
                   SubstringIgnoringCase(concept.prerequisites[p], other.subConcepts[k])

\* C10: the dependencies of a pathway entry are the ids, in the order of the
\* sorted array, of the other concepts whose name or one of whose
\* sub-concepts contains one of the entry's prerequisites, letter case
\* ignored; never the entry's own id; none for an entry without
\* prerequisites.
DependenciesByPrerequisite ==
    PathwayCreated =>
        \A j \in 1..Len(learningPathway.pathway) :
            LET c == learningPathway.pathway[j]
                others == SelectSeq(extracted.items,
                                    LAMBDA o : ClaimedDependency(extracted.items[j], o))
            IN  /\ c.dependencies = [i \in 1..Len(others) |-> others[i].id]
                /\ c.id \notin Range(c.dependencies)
                /\ ClaimedCount(c) = 0 => c.dependencies = <<>>

\* an entry whose prerequisite is in its own name and, in another letter
\* case, in a sub-concept of the one concept it depends on, and an entry
\* with two dependencies
DependencyWitness ==
    /\ PathwayCreated
    /\ \E j \in 1..Len(learningPathway.pathway) :
          LET c == learningPathway.pathway[j]
          IN  /\ c.name = <<"A", "b">>
              /\ "prerequisites" \in DOMAIN c
              /\ c.prerequisites = << <<"a">> >>
              /\ c.dependencies = <<ConceptId(3)>>
    /\ \E j \in 1..Len(learningPathway.pathway) :
          Len(learningPathway.pathway[j].dependencies) = 2

-----------------------------------------------------------------------------
(* shuffleQuestions on its own *)

\* the questions of the lists: two of one concept, and one of another concept
\* that has the id and the number of the first
GeneratedQuestion(k) ==
    CASE k = 1 -> [id |-> "q1", conceptId |-> ConceptId(1), correctAnswer |-> "a",
                   userAnswer |-> "", number |-> 1]
      [] k = 2 -> [id |-> "q2", conceptId |-> ConceptId(1), correctAnswer |-> "b",
                   userAnswer |-> "b", number |-> 2]
      [] OTHER -> [id |-> "q1", conceptId |-> ConceptId(2), correctAnswer |-> "true",
                   userAnswer |-> "", number |-> 1]

\* the draws of Math.random() of one call, one for each position
RandomDraws(n) == [1..n -> 0..(RandDen - 1)]

InitShuffle ==
    /\ pc = "start"
    /\ AdaptiveIdle
    /\ argConcepts = UndefinedValue
    /\ extracted = UndefinedValue
    /\ learningPathway = [pathway |-> <<>>]
    /\ \E n \in 0..MaxShuffle :
          \E ks \in [1..n -> 1..3] :
              argQuestions = [i \in 1..n |-> GeneratedQuestion(ks[i])]
    /\ AssessmentIdle
    /\ UploadIdle
    /\ AiIdle

\* shuffleQuestions(argQuestions): the loop works on a copy ([...questions])
\* and the result is a new array of new objects
ShuffleQuestionsCall ==
    /\ pc = "start"
    /\ \E rnd \in RandomDraws(Len(argQuestions)) :
          result' = ShuffleQuestions(argQuestions, rnd)
    /\ pc' = "done"
    /\ UNCHANGED <<concepts, userPerformance, weakConcepts, strongConcepts,
                   questionPromises, error, adjusted, pathwayVars, argQuestions,
                   assessmentVars, lastEvent, uploadVars, aiVars, effectVars>>

SpecShuffle == InitShuffle /\ [][ShuffleQuestionsCall]_vars

\* the one-to-one maps of 1..n onto itself
Bijections(n) ==
    {f \in [1..n -> 1..n] : \A i, j \in 1..n : f[i] = f[j] => i = j}

ShuffledAsClaimed ==
    pc = "done" =>
        /\ Len(result) = Len(argQuestions)
        /\ \E from \in Bijections(Len(argQuestions)) :
              \A i \in 0..(Len(result) - 1) :
                  LET given == argQuestions[from[i + 1]]
                      returned == result[i + 1]
                  IN  /\ DOMAIN returned = DOMAIN given
                      /\ returned.number = i + 1
                      /\ \A f \in (DOMAIN given) \ {"number"} : returned[f] = given[f]

\* C11: shuffleQuestions returns a list of the same length that is a
\* permutation of the input in which the question at 0-based position i has
\* the number i + 1 and every other field as it was; the input list is
\* neither reordered nor modified.
ShuffleRenumbersPermutation ==
    []ShuffledAsClaimed /\ [][argQuestions' = argQuestions]_vars

\* three questions returned in another order than given, each with another
\* number than it had
ShuffleWitness ==
    /\ pc = "done"
    /\ argQuestions = <<GeneratedQuestion(2), GeneratedQuestion(3), GeneratedQuestion(1)>>
    /\ result = <<[GeneratedQuestion(1) EXCEPT !.number = 1],
                  [GeneratedQuestion(2) EXCEPT !.number = 2],
                  [GeneratedQuestion(3) EXCEPT !.number = 3]>>

-----------------------------------------------------------------------------
(* QuestionGenerationAssessment: the assessment view                        *)
(*                                                                         *)
(* A handler runs to its end before the next event is taken, and sees the  *)
(* state of the last render.  The handlers that leave the page are not     *)
(* modelled.                                                               *)

\* what no handler of the assessment view writes
outsideAssessment ==
    <<concepts, userPerformance, pc, weakConcepts, strongConcepts, questionPromises,
      result, error, adjusted, pathwayVars, shuffleVars, uploadVars, aiVars,
      effectVars>>

\* const totalQuestions = questions?.length
TotalQuestions == Len(assessmentQuestions)

\* whether questions?.[currentQuestionIndex] is a question
HasCurrentQuestion ==
    currentQuestionIndex >= 0 /\ currentQuestionIndex < TotalQuestions

\* const currentQuestion = questions?.[currentQuestionIndex]
CurrentQuestion == assessmentQuestions[currentQuestionIndex + 1]

\* the view of lines 756-862 is rendered
MainViewShown == ~showSummary /\ ~(~HasCurrentQuestion /\ TotalQuestions = 0)

\* QuestionCard and QuestionNavigation are rendered (lines 814, 828)
QuestionShown == MainViewShown /\ HasCurrentQuestion

\* !!answers?.[id]: the answer is there and is not the empty string
IsTruthyAnswer(id) == id \in DOMAIN answers /\ answers[id] # ""

\* { ...prev, [key]: value }
WithKey(prev, key, value) ==
    [k \in (DOMAIN prev) \cup {key} |-> IF k = key THEN value ELSE prev[k]]

\* questions?.findIndex(q => q?.id === questionId)
FindIndex(questionId) ==
    LET found == {i \in 1..TotalQuestions : assessmentQuestions[i].id = questionId}
    IN  IF found = {} THEN -1
        ELSE (CHOOSE i \in found : \A j \in found : i <= j) - 1

HandleAnswerChange(answer) ==
    /\ QuestionShown
    /\ answers' = WithKey(answers, CurrentQuestion.id, answer)
    /\ showValidation' = FALSE
    /\ lastEvent' = "handleAnswerChange"
    /\ UNCHANGED <<assessmentQuestions, currentQuestionIndex, confidence, isSubmitting,
                   showSummary, sessionTime, sessionStatus, submitTimers, saveTimers,
                   outsideAssessment>>

HandleConfidenceChange(level) ==
    /\ QuestionShown
    /\ confidence' = WithKey(confidence, CurrentQuestion.id, level)
    /\ lastEvent' = "handleConfidenceChange"
    /\ UNCHANGED <<assessmentQuestions, currentQuestionIndex, answers, showValidation,
                   isSubmitting, showSummary, sessionTime, sessionStatus, submitTimers,
                   saveTimers, outsideAssessment>>

\* the handler that advances without looking at the answer
HandleNextUnchecked ==
    /\ QuestionShown
    /\ IF currentQuestionIndex < TotalQuestions - 1
       THEN /\ currentQuestionIndex' = currentQuestionIndex + 1
            /\ showValidation' = FALSE
       ELSE UNCHANGED <<currentQuestionIndex, showValidation>>
    /\ lastEvent' = "handleNext"
    /\ UNCHANGED <<assessmentQuestions, answers, confidence, isSubmitting, showSummary,
                   sessionTime, sessionStatus, submitTimers, saveTimers,
                   outsideAssessment>>

HandleNext ==
    /\ QuestionShown
    /\ IF ~IsTruthyAnswer(CurrentQuestion.id)
       THEN /\ showValidation' = TRUE
            /\ UNCHANGED currentQuestionIndex
       ELSE IF currentQuestionIndex < TotalQuestions - 1
            THEN /\ currentQuestionIndex' = currentQuestionIndex + 1
                 /\ showValidation' = FALSE
            ELSE UNCHANGED <<currentQuestionIndex, showValidation>>
    /\ lastEvent' = "handleNext"
    /\ UNCHANGED <<assessmentQuestions, answers, confidence, isSubmitting, showSummary,
                   sessionTime, sessionStatus, submitTimers, saveTimers,
                   outsideAssessment>>

\* the handler that goes back without looking at the index
HandlePreviousUnguarded ==
    /\ QuestionShown
    /\ currentQuestionIndex' = currentQuestionIndex - 1
    /\ showValidation' = FALSE
    /\ lastEvent' = "handlePrevious"
    /\ UNCHANGED <<assessmentQuestions, answers, confidence, isSubmitting, showSummary,
                   sessionTime, sessionStatus, submitTimers, saveTimers,
                   outsideAssessment>>

HandlePrevious ==
    /\ QuestionShown
    /\ IF currentQuestionIndex > 0
       THEN /\ currentQuestionIndex' = currentQuestionIndex - 1
            /\ showValidation' = FALSE
       ELSE UNCHANGED <<currentQuestionIndex, showValidation>>
    /\ lastEvent' = "handlePrevious"
    /\ UNCHANGED <<assessmentQuestions, answers, confidence, isSubmitting, showSummary,
                   sessionTime, sessionStatus, submitTimers, saveTimers,
                   outsideAssessment>>

\* the handler that submits without looking at the answer
HandleSubmitUnchecked ==
    /\ QuestionShown
    /\ submitTimers < MaxSubmits
    /\ isSubmitting' = TRUE
    /\ submitTimers' = submitTimers + 1
    /\ lastEvent' = "handleSubmit"
    /\ UNCHANGED <<assessmentQuestions, currentQuestionIndex, answers, confidence,
                   showValidation, showSummary, sessionTime, sessionStatus, saveTimers,
                   outsideAssessment>>

\* handleSubmit up to its await (lines 569-578)
HandleSubmit ==
    /\ QuestionShown
    /\ IF ~IsTruthyAnswer(CurrentQuestion.id)
       THEN /\ showValidation' = TRUE
            /\ UNCHANGED <<isSubmitting, submitTimers>>
       ELSE /\ submitTimers < MaxSubmits
            /\ isSubmitting' = TRUE
            /\ submitTimers' = submitTimers + 1
            /\ UNCHANGED showValidation
    /\ lastEvent' = "handleSubmit"
    /\ UNCHANGED <<assessmentQuestions, currentQuestionIndex, answers, confidence,
                   showSummary, sessionTime, sessionStatus, saveTimers,
                   outsideAssessment>>

\* handleSubmit after its await (lines 580-581), 2000 ms later
SubmitDelayEnds ==
    /\ submitTimers > 0
    /\ submitTimers' = submitTimers - 1
    /\ isSubmitting' = FALSE
    /\ showSummary' = TRUE
    /\ lastEvent' = "submitted"
    /\ UNCHANGED <<assessmentQuestions, currentQuestionIndex, answers, confidence,
                   showValidation, sessionTime, sessionStatus, saveTimers,
                   outsideAssessment>>

HandleQuestionSelect(questionId) ==
    /\ MainViewShown
    /\ IF FindIndex(questionId) # -1
       THEN currentQuestionIndex' = FindIndex(questionId)
       ELSE UNCHANGED currentQuestionIndex
    /\ lastEvent' = "handleQuestionSelect"
    /\ UNCHANGED <<assessmentQuestions, answers, confidence, showValidation, isSubmitting,
                   showSummary, sessionTime, sessionStatus, submitTimers, saveTimers,
                   outsideAssessment>>

HandleRetakeAssessment ==
    /\ showSummary
    /\ currentQuestionIndex' = 0
    /\ answers' = <<>>
    /\ confidence' = <<>>
    /\ showSummary' = FALSE
    /\ sessionTime' = 0
    /\ sessionStatus' = "active"
    /\ lastEvent' = "handleRetakeAssessment"
    /\ UNCHANGED <<assessmentQuestions, showValidation, isSubmitting, submitTimers,
                   saveTimers, outsideAssessment>>

-----------------------------------------------------------------------------
(* QuestionGenerationAssessment: session status, timer and save cycles *)

HandlePauseSession ==
    /\ MainViewShown
    /\ sessionStatus' = (IF sessionStatus = "active" THEN "paused" ELSE "active")
    /\ lastEvent' = "handlePauseSession"
    /\ UNCHANGED <<assessmentQuestions, currentQuestionIndex, answers, confidence,
                   showValidation, isSubmitting, showSummary, sessionTime, submitTimers,
                   saveTimers, outsideAssessment>>

\* setSessionStatus('saving'); setTimeout(() => { setSessionStatus('saved') ... })
StartSaveCycle ==
    /\ saveTimers.saved + saveTimers.active < MaxSaves
    /\ sessionStatus' = "saving"
    /\ saveTimers' = [saveTimers EXCEPT !.saved = @ + 1]

HandleSessionManage(action) ==
    \/ /\ action = "pause"
       /\ HandlePauseSession
    \/ /\ action = "save"
       /\ MainViewShown
       /\ StartSaveCycle
       /\ lastEvent' = "handleSessionManage"
       /\ UNCHANGED <<assessmentQuestions, currentQuestionIndex, answers, confidence,
                      showValidation, isSubmitting, showSummary, sessionTime,
                      submitTimers, outsideAssessment>>
    \/ /\ action = "manage"
       /\ MainViewShown
       /\ lastEvent' = "handleSessionManage"
       /\ UNCHANGED <<assessmentQuestions, currentQuestionIndex, answers, confidence,
                      showValidation, isSubmitting, showSummary, sessionTime,
                      sessionStatus, submitTimers, saveTimers, outsideAssessment>>

\* the callback of the auto-save interval (lines 515-524), every 30 s
AutoSave ==
    /\ IF sessionStatus = "active" /\ Cardinality(DOMAIN answers) > 0
       THEN StartSaveCycle
       ELSE UNCHANGED <<sessionStatus, saveTimers>>
    /\ lastEvent' = "autoSave"
    /\ UNCHANGED <<assessmentQuestions, currentQuestionIndex, answers, confidence,
                   showValidation, isSubmitting, showSummary, sessionTime, submitTimers,
                   outsideAssessment>>

\* the first timeout of a save cycle (lines 518-522, 601-605)
SaveTimeoutSaved ==
    /\ saveTimers.saved > 0
    /\ sessionStatus' = "saved"
    /\ saveTimers' = [saved |-> saveTimers.saved - 1, active |-> saveTimers.active + 1]
    /\ lastEvent' = "saveTimeout"
    /\ UNCHANGED <<assessmentQuestions, currentQuestionIndex, answers, confidence,
                   showValidation, isSubmitting, showSummary, sessionTime, submitTimers,
                   outsideAssessment>>

\* the second timeout of a save cycle (lines 521, 604)
SaveTimeoutActive ==
    /\ saveTimers.active > 0
    /\ sessionStatus' = "active"
    /\ saveTimers' = [saveTimers EXCEPT !.active = @ - 1]
    /\ lastEvent' = "saveTimeout"
    /\ UNCHANGED <<assessmentQuestions, currentQuestionIndex, answers, confidence,
                   showValidation, isSubmitting, showSummary, sessionTime, submitTimers,
                   outsideAssessment>>

\* the timer that runs whatever the status
TimerTickAlways ==
    /\ sessionTime < MaxSessionTime
    /\ sessionTime' = sessionTime + 1
    /\ lastEvent' = "timer"
    /\ UNCHANGED <<assessmentQuestions, currentQuestionIndex, answers, confidence,
                   showValidation, isSubmitting, showSummary, sessionStatus,
                   submitTimers, saveTimers, outsideAssessment>>

\* the callback of the timer interval (lines 503-511), which is set only
\* while the status is active
TimerTick ==
    /\ sessionStatus = "active"
    /\ sessionTime < MaxSessionTime
    /\ sessionTime' = sessionTime + 1
    /\ lastEvent' = "timer"
    /\ UNCHANGED <<assessmentQuestions, currentQuestionIndex, answers, confidence,
                   showValidation, isSubmitting, showSummary, sessionStatus,
                   submitTimers, saveTimers, outsideAssessment>>

-----------------------------------------------------------------------------
(* The assessment view, from the questions set *)

\* the question list of n questions; the third has the id of the first
AssessmentQuestionList(n) == [i \in 1..n |-> GeneratedQuestion(i)]

\* what QuestionCard and QuestionOverview pass to the handlers
AnswerValues == {"a", ""}
ConfidenceLevels == {4}
QuestionIds == {"q1", "q2", "q9"}

ServicesIdle ==
    /\ pc = "start"
    /\ AdaptiveIdle
    /\ argConcepts = UndefinedValue
    /\ extracted = UndefinedValue
    /\ learningPathway = [pathway |-> <<>>]
    /\ ShuffleIdle

\* question navigation, submission and retake
InitNavigation ==
    /\ ServicesIdle
    /\ \E n \in 0..MaxQuestions : assessmentQuestions = AssessmentQuestionList(n)
    /\ AssessmentMounted
    /\ UploadIdle
    /\ AiIdle

NextNavigation ==
    \/ \E answer \in AnswerValues : HandleAnswerChange(answer)
    \/ \E level \in ConfidenceLevels : HandleConfidenceChange(level)
    \/ HandleNext
    \/ HandlePrevious
    \/ HandleSubmit
    \/ SubmitDelayEnds
    \/ \E questionId \in QuestionIds : HandleQuestionSelect(questionId)
    \/ HandleRetakeAssessment

SpecNavigation == InitNavigation /\ [][NextNavigation]_vars

\* session status and time of an assessment of one question
InitSession ==
    /\ ServicesIdle
    /\ assessmentQuestions = AssessmentQuestionList(1)
    /\ AssessmentMounted
    /\ UploadIdle
    /\ AiIdle

NextSession ==
    \/ \E answer \in AnswerValues : HandleAnswerChange(answer)
    \/ HandleSubmit
    \/ SubmitDelayEnds
    \/ HandleRetakeAssessment
    \/ HandlePauseSession
    \/ \E action \in {"pause", "save", "manage"} : HandleSessionManage(action)
    \/ AutoSave
    \/ SaveTimeoutSaved
    \/ SaveTimeoutActive
    \/ TimerTick

SpecSession == InitSession /\ [][NextSession]_vars

-----------------------------------------------------------------------------
(* The claims about the assessment view *)

\* the current question has a recorded answer (an answer that is not empty)
CurrentAnswered ==
    LET id == assessmentQuestions[currentQuestionIndex + 1].id
    IN  id \in DOMAIN answers /\ answers[id] # ""

\* C12: Next on a question without a recorded answer leaves currentIndex
\* as it is and sets the validation flag; Next on an answered question that
\* is not the last one advances currentIndex by exactly one and clears the
\* validation flag.
NextNeedsAnswer ==
    [][lastEvent' = "handleNext" =>
          IF ~CurrentAnswered
          THEN /\ currentQuestionIndex' = currentQuestionIndex
               /\ showValidation'
          ELSE currentQuestionIndex < Len(assessmentQuestions) - 1 =>
                  /\ currentQuestionIndex' = currentQuestionIndex + 1
                  /\ ~showValidation']_vars

\* Next was rejected on the second question, which Next was taken to from
\* the answered first one
NextWitness ==
    /\ lastEvent = "handleNext"
    /\ currentQuestionIndex = 1
    /\ showValidation
    /\ DOMAIN answers = {"q1"}
    /\ answers["q1"] = "a"

\* a rejected Submit leaves the summary hidden and sets the validation flag
SubmitNeedsAnswer ==
    (lastEvent' = "handleSubmit" /\ ~CurrentAnswered) =>
        /\ showValidation'
        /\ ~showSummary'
        /\ UNCHANGED <<isSubmitting, submitTimers>>

\* an accepted Submit starts the submission, whose end shows the summary
SubmitShowsSummary ==
    /\ (lastEvent' = "handleSubmit" /\ CurrentAnswered) =>
            /\ isSubmitting'
            /\ submitTimers' = submitTimers + 1
    /\ lastEvent' = "submitted" => (submitTimers > 0 /\ showSummary')
    /\ (~showSummary /\ showSummary') => lastEvent' = "submitted"

\* C13 as stated: a Submit without a recorded answer is rejected, any other
\* Submit leads to the summary view, and no event leaves the summary view.
SummaryIsTerminal ==
    [][/\ SubmitNeedsAnswer
       /\ SubmitShowsSummary
       /\ showSummary => showSummary']_vars

\* C13, amended: a Submit without a recorded answer is rejected (summary not
\* shown, validation flag set); any other Submit shows the summary view when
\* its submission delay ends; the summary view is left only by Retake, which
\* returns the session to the first question with no recorded answer.
SummaryLeftByRetakeOnly ==
    [][/\ SubmitNeedsAnswer
       /\ SubmitShowsSummary
       /\ (showSummary /\ ~showSummary') =>
              /\ lastEvent' = "handleRetakeAssessment"
              /\ currentQuestionIndex' = 0
              /\ DOMAIN answers' = {}
       /\ (showSummary /\ showSummary') =>
              UNCHANGED <<currentQuestionIndex, answers, showValidation>>]_vars

\* the assessment was retaken from the summary, which a submission made
\* after a rejected one had shown
RetakeWitness ==
    /\ lastEvent = "handleRetakeAssessment"
    /\ ~showSummary
    /\ showValidation
    /\ currentQuestionIndex = 0
    /\ DOMAIN answers = {}
    /\ Len(assessmentQuestions) = 2

\* C14: with at least one question, 0 <= currentIndex < totalQuestions in
\* every reachable state; Previous takes exactly one from currentIndex
\* whenever it is above 0, answered or not, and changes nothing at 0.
IndexInRange ==
    /\ [](Len(assessmentQuestions) > 0 =>
             (0 <= currentQuestionIndex /\ currentQuestionIndex < Len(assessmentQuestions)))
    /\ [][lastEvent' = "handlePrevious" =>
             currentQuestionIndex' =
                 (IF currentQuestionIndex > 0 THEN currentQuestionIndex - 1 ELSE 0)]_vars

\* Previous was taken from the third question after its answer was emptied
PreviousWitness ==
    /\ lastEvent = "handlePrevious"
    /\ currentQuestionIndex = 1
    /\ "q1" \in DOMAIN answers
    /\ answers["q1"] = ""

\* C15: the session time goes up by exactly 1 with each second that elapses
\* while the status is active, stays as it is while the status is paused,
\* and goes down only when the assessment is retaken.
TimerRunsWhileActive ==
    /\ []((sessionStatus = "active" /\ sessionTime < MaxSessionTime) => ENABLED TimerTick)
    /\ [][/\ lastEvent' = "timer" =>
               (sessionStatus = "active" /\ sessionTime' = sessionTime + 1)
          /\ sessionTime' # sessionTime =>
               \/ lastEvent' = "timer"
               \/ lastEvent' = "handleRetakeAssessment" /\ sessionTime' = 0
          /\ (sessionStatus = "paused" /\ lastEvent' # "handleRetakeAssessment") =>
               sessionTime' = sessionTime]_vars

\* the session was paused after one second, no save cycle running
PausedWitness ==
    /\ sessionStatus = "paused"
    /\ sessionTime = 1
    /\ lastEvent = "handlePauseSession"
    /\ saveTimers.saved + saveTimers.active = 0

\* C16: the status changes only from active to paused and back, by the pause
\* toggle, and from active to saving to saved to active, by a save cycle;
\* the pause toggle while saving or saved and a save started while paused
\* make no other change (the reset of a retake aside).
StatusTransitions ==
    [][(sessionStatus' # sessionStatus /\ lastEvent' # "handleRetakeAssessment") =>
          \/ /\ lastEvent' = "handlePauseSession"
             /\ <<sessionStatus, sessionStatus'>> \in
                    {<<"active", "paused">>, <<"paused", "active">>}
          \/ /\ lastEvent' \in {"handleSessionManage", "autoSave"}
             /\ <<sessionStatus, sessionStatus'>> = <<"active", "saving">>
          \/ /\ lastEvent' = "saveTimeout"
             /\ <<sessionStatus, sessionStatus'>> \in
                    {<<"saving", "saved">>, <<"saved", "active">>}]_vars

-----------------------------------------------------------------------------
(* FileAnalysisService: validateFile *)

\* const maxSize = 10 * 1024 * 1024
MaxSize == 10 * 1024 * 1024

TextPlain == <<"t", "e", "x", "t", "/", "p", "l", "a", "i", "n">>
TextMarkdown == <<"t", "e", "x", "t", "/", "m", "a", "r", "k", "d", "o", "w", "n">>
ApplicationJson ==
    <<"a", "p", "p", "l", "i", "c", "a", "t", "i", "o", "n", "/", "j", "s", "o", "n">>
TextCsv == <<"t", "e", "x", "t", "/", "c", "s", "v">>
ApplicationPdf ==
    <<"a", "p", "p", "l", "i", "c", "a", "t", "i", "o", "n", "/", "p", "d", "f">>

\* const allowedTypes
AllowedTypes == <<TextPlain, TextMarkdown, ApplicationJson, TextCsv, ApplicationPdf>>

\* str.split(separator)[0]
SplitFirst(str, separator) ==
    LET at == {i \in 1..Len(str) : str[i] = separator}
    IN  IF at = {} THEN str
        ELSE SubSeq(str, 1, (CHOOSE i \in at : \A j \in at : i <= j) - 1)

\* file?.type?.includes(type?.split('/')?.[0])
TypeIncludesPrefix(f, type) ==
    "type" \in DOMAIN f /\ Includes(f.type, SplitFirst(type, "/"))

ValidateFile(f) ==
    IF f = Null \/ f = Undefined
    THEN [isValid |-> FALSE, error |-> "No file provided"]
    ELSE IF f.size > MaxSize
    THEN [isValid |-> FALSE, error |-> "File size exceeds 10MB limit"]
    ELSE IF ~\E t \in 1..Len(AllowedTypes) : TypeIncludesPrefix(f, AllowedTypes[t])
    THEN [isValid |-> FALSE, error |-> "Unsupported file type"]
    ELSE [isValid |-> TRUE]

\* types of files a browser hands over that are not in allowedTypes
ApplicationZip ==
    <<"a", "p", "p", "l", "i", "c", "a", "t", "i", "o", "n", "/", "z", "i", "p">>
TextHtml == <<"t", "e", "x", "t", "/", "h", "t", "m", "l">>
ImagePng == <<"i", "m", "a", "g", "e", "/", "p", "n", "g">>

FileTypes ==
    {TextPlain, TextMarkdown, ApplicationJson, TextCsv, ApplicationPdf,
     ApplicationZip, TextHtml, ImagePng, <<>>}

FileSizes == {0, 1, MaxSize - 1, MaxSize, MaxSize + 1, 2 * MaxSize}

\* File objects, of every type and size, and an object without a type
Files ==
    [size : FileSizes, type : FileTypes] \cup {[size |-> s] : s \in FileSizes}

InitValidate ==
    /\ ServicesIdle
    /\ AssessmentIdle
    /\ UploadMounted
    /\ AiIdle
    /\ file \in Files \cup {Null, Undefined}

\* fileAnalysisService.validateFile(file)
ValidateFileCall ==
    /\ pc = "start"
    /\ result' = ValidateFile(file)
    /\ pc' = "done"
    /\ UNCHANGED <<concepts, userPerformance, weakConcepts, strongConcepts,
                   questionPromises, error, adjusted, pathwayVars, componentVars>>

SpecValidate == InitValidate /\ [][ValidateFileCall]_vars

\* the types the claim takes to be accepted
ClaimedTypes == {TextPlain, TextMarkdown, ApplicationJson, TextCsv}

\* C17: validateFile accepts a file exactly when the file is there, its size
\* is at most 10 MiB and its type is plain text, markdown, JSON or CSV; it
\* answers 'No file provided' for no file, 'File size exceeds 10MB limit'
\* for a larger file, whatever its type, and 'Unsupported file type' for a
\* file of another type.
AcceptsListedTypesOnly ==
    pc = "done" =>
        result =
            IF file \in {Null, Undefined}
            THEN [isValid |-> FALSE, error |-> "No file provided"]
            ELSE IF file.size > 10 * 1024 * 1024
            THEN [isValid |-> FALSE, error |-> "File size exceeds 10MB limit"]
            ELSE IF "type" \in DOMAIN file /\ file.type \in ClaimedTypes
            THEN [isValid |-> TRUE]
            ELSE [isValid |-> FALSE, error |-> "Unsupported file type"]

-----------------------------------------------------------------------------
(* FileUpload: the upload view                                              *)
(*                                                                         *)
(* While a file is selected the drop zone and the file input are not       *)
(* rendered; while isProcessing the buttons are disabled.  createLearning- *)
(* Pathway runs as the operation modelled above, on argConcepts/extracted. *)

outsideUpload ==
    <<concepts, userPerformance, weakConcepts, strongConcepts, questionPromises,
      result, adjusted, shuffleVars, assessmentVars, aiVars, effectVars>>

Analyzing == "Analyzing file content..."
Extracting == "Extracting learning concepts..."
Creating == "Creating personalized learning path..."
Complete == "Complete! Redirecting to assessment..."

\* the selection that skips the validation
HandleFileSelectionUnvalidated(f) ==
    /\ selectedFile = Null
    /\ selectedFile' = f
    /\ error' = ""
    /\ file' = f
    /\ lastEvent' = "handleFileSelection"
    /\ UNCHANGED <<isProcessing, processingStep, analysisResult, sessionStorage,
                   navigation, analyzeFileCalls, pc, pathwayVars, outsideUpload>>

\* handleFileSelection(f), from handleDrop or handleFileInputChange
HandleFileSelection(f) ==
    /\ selectedFile = Null
    /\ LET validation == ValidateFile(f)
       IN  IF ~validation.isValid
           THEN /\ error' = validation.error
                /\ UNCHANGED selectedFile
           ELSE /\ selectedFile' = f
                /\ error' = ""
    /\ file' = f
    /\ lastEvent' = "handleFileSelection"
    /\ UNCHANGED <<isProcessing, processingStep, analysisResult, sessionStorage,
                   navigation, analyzeFileCalls, pc, pathwayVars, outsideUpload>>

RemoveSelectedFile ==
    /\ selectedFile # Null
    /\ ~isProcessing
    /\ selectedFile' = Null
    /\ error' = ""
    /\ analysisResult' = Null
    /\ lastEvent' = "removeSelectedFile"
    /\ UNCHANGED <<file, isProcessing, processingStep, sessionStorage, navigation,
                   analyzeFileCalls, pc, pathwayVars, outsideUpload>>

\* handleFileUpload up to its first await (lines 57-66)
HandleFileUpload ==
    /\ selectedFile # Null
    /\ ~isProcessing
    /\ Len(analyzeFileCalls) < MaxUploads
    /\ isProcessing' = TRUE
    /\ error' = ""
    /\ processingStep' = Analyzing
    /\ analyzeFileCalls' = Append(analyzeFileCalls, selectedFile)
    /\ lastEvent' = "handleFileUpload"
    /\ UNCHANGED <<file, selectedFile, analysisResult, sessionStorage, navigation,
                   pc, pathwayVars, outsideUpload>>

\* the catch block without the finally block
ProcessingFailsWithoutFinally ==
    /\ error' = "Failed to process file. Please try again."
    /\ processingStep' = ""
    /\ UNCHANGED <<file, selectedFile, isProcessing, analysisResult, sessionStorage,
                   navigation, analyzeFileCalls, pc, pathwayVars, outsideUpload>>

\* the catch and finally blocks (lines 100-106)
ProcessingFails ==
    /\ error' = "Failed to process file. Please try again."
    /\ processingStep' = ""
    /\ isProcessing' = FALSE
    /\ UNCHANGED <<file, selectedFile, analysisResult, sessionStorage, navigation,
                   analyzeFileCalls, pc, pathwayVars, outsideUpload>>

\* analyzeFile resolves (lines 66-69)
AnalyzeFileReturns ==
    /\ isProcessing /\ processingStep = Analyzing
    /\ processingStep' = Extracting
    /\ lastEvent' = "analyzeFile"
    /\ UNCHANGED <<file, selectedFile, isProcessing, analysisResult, sessionStorage,
                   navigation, analyzeFileCalls, error, pc, pathwayVars, outsideUpload>>

\* analyzeFile rejects
AnalyzeFileThrows ==
    /\ isProcessing /\ processingStep = Analyzing
    /\ ProcessingFails
    /\ lastEvent' = "analyzeFile"

\* extractConcepts resolves with cs (lines 70-73)
ExtractConceptsReturns(cs) ==
    /\ isProcessing /\ processingStep = Extracting
    /\ processingStep' = Creating
    /\ argConcepts' = cs
    /\ extracted' = cs
    /\ pc' = "start"
    /\ lastEvent' = "extractConcepts"
    /\ UNCHANGED <<file, selectedFile, isProcessing, analysisResult, sessionStorage,
                   navigation, analyzeFileCalls, error, learningPathway, outsideUpload>>

\* extractConcepts rejects
ExtractConceptsThrows ==
    /\ isProcessing /\ processingStep = Extracting
    /\ ProcessingFails
    /\ lastEvent' = "extractConcepts"

\* what analyzeFile resolves with for a file
AnalysisOf(f) == [subject |-> "subject", fileInfo |-> f]

\* JSON.stringify(value), as sessionStorage keeps it
JsonStringify(value) == [json |-> value]

\* handleFileUpload from the pathway to its end (lines 75-106)
FinishUpload ==
    /\ isProcessing /\ processingStep = Creating
    /\ pc = "done"
    /\ analysisResult' =
          Spread(AnalysisOf(selectedFile),
                 [concepts |-> extracted, learningPathway |-> learningPathway])
    /\ processingStep' = Complete
    /\ sessionStorage' =
          [fileAnalysis |-> JsonStringify(AnalysisOf(selectedFile)),
           extractedConcepts |-> JsonStringify(extracted),
           learningPathway |-> JsonStringify(learningPathway)]
    /\ navigation' = [analysisResult |-> AnalysisOf(selectedFile),
                      concepts |-> extracted,
                      learningPathway |-> learningPathway]
    /\ isProcessing' = FALSE
    /\ pc' = "idle"
    /\ lastEvent' = "handleFileUpload"
    /\ UNCHANGED <<file, selectedFile, analyzeFileCalls, error, pathwayVars,
                   outsideUpload>>

\* the files dropped or chosen: a small text file, a text file over the
\* limit, an image, and an archive
UploadFiles ==
    {[size |-> 1, type |-> TextPlain], [size |-> MaxSize + 1, type |-> TextPlain],
     [size |-> 1, type |-> ImagePng], [size |-> 1, type |-> ApplicationZip]}

\* what extractConcepts resolves with
ExtractResults ==
    {UndefinedValue, ArrayValue(<<>>),
     ArrayValue(<<Spread(ExtractedConcept(1), [difficulty |-> "Advanced"]),
                  Spread(ExtractedConcept(2), [difficulty |-> "Beginner"])>>),
     ArrayValue(<<Spread(ExtractedConcept(1),
                         [difficulty |-> "Intermediate",
                          prerequisites |-> << <<"c">> >>]),
                  Spread(ExtractedConcept(2), [difficulty |-> "Intermediate"]),
                  Spread(ExtractedConcept(3), [difficulty |-> "Beginner"])>>)}

InitUpload ==
    /\ pc = "idle"
    /\ AdaptiveIdle
    /\ argConcepts = UndefinedValue
    /\ extracted = UndefinedValue
    /\ learningPathway = [pathway |-> <<>>]
    /\ ShuffleIdle
    /\ AssessmentIdle
    /\ UploadIdle
    /\ AiIdle

NextUpload ==
    \/ \E f \in UploadFiles : HandleFileSelection(f)
    \/ RemoveSelectedFile
    \/ HandleFileUpload
    \/ AnalyzeFileReturns
    \/ AnalyzeFileThrows
    \/ \E cs \in ExtractResults : ExtractConceptsReturns(cs)
    \/ ExtractConceptsThrows
    \/ CreateLearningPathway
    \/ FinishUpload

SpecUpload == InitUpload /\ [][NextUpload]_vars

\* C18: the selected file is absent or a file validateFile accepts, analysis
\* is started only for such a file, and selecting a file that fails the
\* validation sets the error message and starts no analysis.
AnalysisOfValidatedFilesOnly ==
    /\ [](/\ selectedFile # Null => ValidateFile(selectedFile).isValid
          /\ \A i \in 1..Len(analyzeFileCalls) :
                ValidateFile(analyzeFileCalls[i]).isValid)
    /\ [][(lastEvent' = "handleFileSelection" /\ ~ValidateFile(file').isValid) =>
             /\ error' = ValidateFile(file').error
             /\ error' # ""
             /\ UNCHANGED <<selectedFile, analyzeFileCalls, isProcessing>>]_vars

\* the image was refused after the analysis of the archive, which
\* validateFile accepts, had been started and the archive removed
SelectionWitness ==
    /\ lastEvent = "handleFileSelection"
    /\ file = [size |-> 1, type |-> ImagePng]
    /\ error = "Unsupported file type"
    /\ selectedFile = Null
    /\ analyzeFileCalls = <<[size |-> 1, type |-> ApplicationZip]>>

-----------------------------------------------------------------------------
(* The AI-backed operations: the request each one makes and what it does
   with the response *)

outsideAi ==
    <<concepts, userPerformance, weakConcepts, strongConcepts,
      questionPromises, adjusted, pathwayVars, shuffleVars, assessmentVars,
      lastEvent, uploadVars, effectVars>>

\* the message of the Error thrown by the catch block of each operation
FixedError(name) ==
    CASE name = "analyzeFile" -> "Failed to analyze file content"
      [] name = "extractConcepts" -> "Failed to extract concepts from content"
      [] name = "generateQuestionsForConcept" ->
            "Failed to generate questions for concept"
      [] name = "evaluateAnswer" -> "Failed to evaluate answer"

\* the top-level property the response format of each operation requires
ExpectedField(name) ==
    CASE name = "analyzeFile" -> "subject"
      [] name = "extractConcepts" -> "concepts"
      [] name = "generateQuestionsForConcept" -> "questions"
      [] name = "evaluateAnswer" -> "isCorrect"

\* a message content that is no JSON text
NotJson == [text |-> "I cannot help with that."]

\* JSON.parse(response?.choices?.[0]?.message?.content): a missing content
\* is converted to the string "undefined", which is no JSON text, and null
\* to "null"
JsonParse(content) ==
    IF content = Null THEN [throws |-> FALSE, value |-> Null]
    ELSE IF "json" \in DOMAIN content
         THEN [throws |-> FALSE, value |-> content.json]
         ELSE [throws |-> TRUE, value |-> Undefined]

\* { ...parsed, ...more }: spreading null adds nothing
SpreadParsed(parsed, more) ==
    IF parsed = Null THEN more ELSE Spread(parsed, more)

\* extractionResult?.concepts?.map(...), lines 81-90
MapConcepts(analysisData, cs) ==
    [index \in 1..Len(cs) |->
        Spread(cs[index],
               [id |-> IF cs[index].id # "" THEN cs[index].id
                       ELSE "concept_" \o ToString(index),
                sourceSubject |-> analysisData.subject,
                masteryLevel |-> 0,
                attempts |-> 0,
                correctAnswers |-> 0])]

\* parsed?.[field]?.map(callback), where items are the mapped elements: a
\* null value or a missing property gives undefined, and a property that
\* has no map method throws a TypeError
OptionalMap(parsed, field, mapped) ==
    IF parsed = Null \/ field \notin DOMAIN parsed
    THEN [throws |-> FALSE, value |-> UndefinedValue]
    ELSE IF "isArray" \in DOMAIN parsed[field]
         THEN [throws |-> FALSE, value |-> ArrayValue(mapped)]
         ELSE [throws |-> TRUE, value |-> Undefined]

\* the statements of the try block after the request has been answered
AfterResponse(op, content) ==
    LET parse == JsonParse(content)
        parsed == parse.value
        items(field) ==
            IF parsed # Null /\ field \in DOMAIN parsed
                             /\ "isArray" \in DOMAIN parsed[field]
            THEN parsed[field].items ELSE <<>>
    IN  IF parse.throws THEN parse
        ELSE CASE op.name = "analyzeFile" ->
                    [throws |-> FALSE,
                     value |-> SpreadParsed(parsed, [fileInfo |-> op.file])]
               [] op.name = "extractConcepts" ->
                    OptionalMap(parsed, "concepts",
                        MapConcepts(op.analysisData, items("concepts")))
               [] op.name = "generateQuestionsForConcept" ->
                    OptionalMap(parsed, "questions",
                        MapQuestions(op.concept, items("questions")))
               [] op.name = "evaluateAnswer" ->
                    [throws |-> FALSE,
                     value |-> SpreadParsed(parsed,
                        [questionId |-> op.question.id,
                         conceptId |-> op.question.conceptId,
                         userAnswer |-> op.userAnswer,
                         timeTaken |-> 0])]

\* extractFileContent settles: resolved with the text, or rejected by
\* reader.onerror or by the JSON.parse of an application/json file
ExtractFileContentEnds(ok) ==
    /\ pc = "start"
    /\ operation.name = "analyzeFile"
    /\ IF ok THEN pc' = "read" /\ UNCHANGED error
       ELSE pc' = "failed" /\ error' = FixedError(operation.name)
    /\ UNCHANGED <<result, operation, apiRequests, response, outsideAi>>

\* await openai.chat.completions.create(...)
CreateCompletion ==
    /\ pc = (IF operation.name = "analyzeFile" THEN "read" ELSE "start")
    /\ apiRequests' = apiRequests + 1
    /\ pc' = "awaiting"
    /\ UNCHANGED <<result, error, operation, response, outsideAi>>

\* the request is rejected (network error, API error): the catch block
CompletionRejects ==
    /\ pc = "awaiting"
    /\ response' = [rejected |-> TRUE]
    /\ pc' = "failed"
    /\ error' = FixedError(operation.name)
    /\ UNCHANGED <<result, operation, apiRequests, outsideAi>>

\* the request is answered with a message of the given content
CompletionResolves(content) ==
    /\ pc = "awaiting"
    /\ response' = content
    /\ LET outcome == AfterResponse(operation, content)
       IN  IF outcome.throws
           THEN pc' = "failed" /\ error' = FixedError(operation.name)
                               /\ UNCHANGED result
           ELSE pc' = "done" /\ result' = outcome.value /\ UNCHANGED error
    /\ UNCHANGED <<operation, apiRequests, outsideAi>>

\* a concept object of a response; the first one carries no id
AiConcept(i) ==
    [id |-> IF i = 1 THEN "" ELSE "c" \o ToString(i), name |-> ConceptId(i)]

\* the invocations explored
Invocations ==
    {[name |-> "analyzeFile", file |-> f] :
        f \in {[size |-> 1, type |-> TextPlain],
               [size |-> 1, type |-> ApplicationJson]}}
    \cup {[name |-> "extractConcepts", analysisData |-> a] :
        a \in {[subject |-> "Mathematics"], [subject |-> "History"]}}
    \cup {[name |-> "generateQuestionsForConcept", concept |-> c] :
        c \in {ConceptList(3)[i] : i \in 1..3}}
    \cup {[name |-> "evaluateAnswer", question |-> GeneratedQuestion(k),
           userAnswer |-> a] : k \in 1..2, a \in AnswerValues}

\* the values a response's JSON text may denote for an operation
ParsedValues(name) ==
    {Null, NoField}
    \cup CASE name = "analyzeFile" ->
                {[subject |-> "Mathematics", topic |-> "Algebra"],
                 [topic |-> "Algebra"]}
           [] name = "extractConcepts" ->
                {[concepts |-> ArrayValue([i \in 1..n |-> AiConcept(i)])] :
                    n \in 0..MaxResp}
                \cup {[concepts |-> [text |-> "none"]]}
           [] name = "generateQuestionsForConcept" ->
                {[questions |-> ArrayValue([i \in 1..n |->
                     IF i = 2 THEN [AiQuestion(1, i) EXCEPT !.id = ""]
                     ELSE AiQuestion(1, i)])] : n \in 0..MaxResp}
                \cup {[questions |-> [text |-> "none"]]}
           [] name = "evaluateAnswer" ->
                {[isCorrect |-> TRUE, score |-> 90], [score |-> 90]}

Contents(name) ==
    {Undefined, Null, NotJson} \cup {JsonStringify(v) : v \in ParsedValues(name)}

InitAiCall ==
    /\ pc = "start"
    /\ AdaptiveIdle
    /\ argConcepts = UndefinedValue
    /\ extracted = UndefinedValue
    /\ learningPathway = [pathway |-> <<>>]
    /\ ShuffleIdle
    /\ AssessmentIdle
    /\ UploadIdle
    /\ operation \in Invocations
    /\ NoRequest

NextAiCall ==
    \/ \E ok \in BOOLEAN : ExtractFileContentEnds(ok)
    \/ CreateCompletion
    \/ CompletionRejects
    \/ \E content \in Contents(operation.name) : CompletionResolves(content)

SpecAiCall == InitAiCall /\ [][NextAiCall]_vars

\* the request or its response failed: rejected, content that does not
\* parse, or a parsed value without the expected top-level field
ResponseFailed ==
    \/ response = [rejected |-> TRUE]
    \/ /\ response # [none |-> TRUE]
       /\ LET parse == JsonParse(response)
          IN  \/ parse.throws
              \/ parse.value = Null
              \/ ExpectedField(operation.name) \notin DOMAIN parse.value

\* C19: an invocation makes at most one request, exactly one once it has
\* been answered or rejected, and whenever the request or its response
\* failed the operation has thrown its fixed error instead of returning.
FailureRaisesFixedError ==
    /\ apiRequests <= 1
    /\ response # [none |-> TRUE] => apiRequests = 1
    /\ ResponseFailed =>
          /\ pc = "failed"
          /\ error = FixedError(operation.name)

-----------------------------------------------------------------------------
(* ConceptExtractionService: parseTimeToMinutes on its own *)

\* this.parseTimeToMinutes(concept?.estimatedTime), line 112
ParseTimeToMinutesCall ==
    /\ pc = "start"
    /\ operation.name = "parseTimeToMinutes"
    /\ result' = ParseTimeToMinutes(operation.concept)
    /\ pc' = "done"
    /\ UNCHANGED <<error, operation, apiRequests, response, outsideAi>>

\* the parts the time strings explored are made of
TimePrefixes == {<<>>, <<"~">>, <<"1", " ">>, <<"m", "i", "n", " ">>}

TimeNumbers == {<<"0">>, <<"2">>, <<"4", "5">>, <<"0", "7">>}

TimeGaps == {<<>>, <<" ">>, <<" ", "\t">>}

TimeUnits ==
    {<<"m", "i", "n">>, <<"M", "i", "N">>, <<"h", "o", "u", "r">>,
     <<"H", "o", "u", "r", "s">>, <<"h", "r">>, <<"H", "R">>, <<"h">>}

TimeSuffixes == {<<>>, <<" ", "3", "h", "r">>}

TimeStrings ==
    {p \o n \o g \o u \o x :
        p \in TimePrefixes, n \in TimeNumbers, g \in TimeGaps,
        u \in TimeUnits, x \in TimeSuffixes}
    \cup {<<>>, <<"g", "a", "r", "b", "a", "g", "e">>, <<"4", "5">>,
          <<"m", "i", "n", " ", "5">>}

InitParseTime ==
    /\ pc = "start"
    /\ AdaptiveIdle
    /\ argConcepts = UndefinedValue
    /\ extracted = UndefinedValue
    /\ learningPathway = [pathway |-> <<>>]
    /\ ShuffleIdle
    /\ AssessmentIdle
    /\ UploadIdle
    /\ NoRequest
    /\ operation \in
          {[name |-> "parseTimeToMinutes", concept |-> c] :
              c \in {NoField} \cup {[estimatedTime |-> t] : t \in TimeStrings}}

NextParseTime == ParseTimeToMinutesCall

SpecParseTime == InitParseTime /\ [][NextParseTime]_vars

ClaimedUnits == {<<"m", "i", "n">>, <<"h", "o", "u", "r">>, <<"h", "r">>}

\* str[i..j] is an integer, str[j+1..k-1] is whitespace and the unit stands
\* at k, in any letter case
ClaimedMatch(str, i, j, k, unit) ==
    /\ 1 <= i /\ i <= j /\ j < k
    /\ k + Len(unit) - 1 <= Len(str)
    /\ \A d \in i..j : str[d] \in Range(DigitChars)
    /\ \A w \in (j + 1)..(k - 1) : str[w] \in {" ", "\t", "\n"}
    /\ \A u \in 1..Len(unit) : SameLetter(str[k + u - 1], unit[u])

\* str[i..j] is the decimal numeral of v, leading zeros allowed
ClaimedNumber(str, i, j, v) ==
    \E z \in 0..(j - i) :
        /\ \A d \in i..(i + z - 1) : str[d] = "0"
        /\ SubSeq(str, i + z, j) = NumberToString(v)

\* C20: parseTimeToMinutes returns, without raising, the integer of the first
\* '<integer> (min|hour|hr)' match (any letter case, optional whitespace
\* before the unit) for the unit min, 60 times it for hour and hr, and 15
\* for a missing or empty input and for a string without such a match.
ParseTimeAsClaimed ==
    /\ pc \in {"start", "done"}
    /\ pc = "done" =>
          LET c == operation.concept
              str == IF "estimatedTime" \in DOMAIN c THEN c.estimatedTime ELSE <<>>
              Matches(i) ==
                  \E j \in i..Len(str), k \in (i + 1)..Len(str), unit \in ClaimedUnits :
                      ClaimedMatch(str, i, j, k, unit)
              starts == {i \in 1..Len(str) : Matches(i)}
          IN  IF starts = {} THEN result = 15
              ELSE \E i \in starts, j \in 1..Len(str), k \in 1..Len(str),
                      unit \in ClaimedUnits, v \in 0..result :
                      /\ \A m \in starts : i <= m
                      /\ ClaimedMatch(str, i, j, k, unit)
                      /\ j = Len(str) \/ str[j + 1] \notin Range(DigitChars)
                      /\ ClaimedNumber(str, i, j, v)
                      /\ result = IF unit = <<"m", "i", "n">> THEN v ELSE 60 * v

\* "1 2 Hours 3hr" gave 120: the first match is "2 Hours"
ParseTimeWitness ==
    /\ pc = "done"
    /\ operation.name = "parseTimeToMinutes"
    /\ operation.concept =
          [estimatedTime |-> <<"1", " ", "2", " ", "H", "o", "u", "r", "s",
                               " ", "3", "h", "r">>]
    /\ result = 120

-----------------------------------------------------------------------------
(* ConceptExtractionService: formatMinutesToTime on its own *)

FormatMinutesToTimeCall ==
    /\ pc = "start"
    /\ operation.name = "formatMinutesToTime"
    /\ result' = FormatMinutesToTime(operation.minutes)
    /\ pc' = "done"
    /\ UNCHANGED <<error, operation, apiRequests, response, outsideAi>>

InitFormatTime ==
    /\ pc = "start"
    /\ AdaptiveIdle
    /\ argConcepts = UndefinedValue
    /\ extracted = UndefinedValue
    /\ learningPathway = [pathway |-> <<>>]
    /\ ShuffleIdle
    /\ AssessmentIdle
    /\ UploadIdle
    /\ NoRequest
    /\ operation \in
          {[name |-> "formatMinutesToTime", minutes |-> n] : n \in 0..MaxMinutes}

NextFormatTime == FormatMinutesToTimeCall

SpecFormatTime == InitFormatTime /\ [][NextFormatTime]_vars

\* str is the decimal numeral of v: digits only, no leading zero
IsNumeral(str, v) ==
    /\ Len(str) >= 1
    /\ \A d \in 1..Len(str) : str[d] \in Range(DigitChars)
    /\ Len(str) > 1 => str[1] # "0"
    /\ ParseInt(str) = v

\* str is the numeral of v followed by the given text
NumeralThen(str, v, text) ==
    \E k \in 1..Len(str) :
        /\ IsNumeral(SubSeq(str, 1, k), v)
        /\ SubSeq(str, k + 1, Len(str)) = text

\* C21: formatMinutesToTime(n) is '{n} min' below 60, '1 hour' for 60,
\* '{h} hours' for a larger multiple of 60 and '{h}h {m}min' otherwise,
\* with h = n div 60 and m = n mod 60.
FormatTimeAsClaimed ==
    (pc = "done" /\ operation.name = "formatMinutesToTime") =>
        LET n == operation.minutes
            h == n \div 60
            m == n % 60
        IN  IF n < 60 THEN NumeralThen(result, n, <<" ", "m", "i", "n">>)
            ELSE IF n = 60 THEN result = <<"1", " ", "h", "o", "u", "r">>
            ELSE IF m = 0 THEN NumeralThen(result, h, <<" ", "h", "o", "u", "r", "s">>)
            ELSE \E k \in 1..Len(result) :
                    /\ IsNumeral(SubSeq(result, 1, k), h)
                    /\ result[k + 1] = "h"
                    /\ result[k + 2] = " "
                    /\ NumeralThen(SubSeq(result, k + 3, Len(result)), m,
                                   <<"m", "i", "n">>)

\* 120 gave "2 hours"
FormatTimeWitness ==
    /\ pc = "done"
    /\ operation = [name |-> "formatMinutesToTime", minutes |-> 120]
    /\ result = <<"2", " ", "h", "o", "u", "r", "s">>

-----------------------------------------------------------------------------
(* Further claims about the session of the assessment view *)

\* C22: while the status is paused, no timer callback (the clock tick, the
\* auto-save tick, a timeout of an earlier save cycle) changes the status
\* or the elapsed time.
PausedUntilToggled ==
    [][(sessionStatus = "paused"
            /\ lastEvent' \in {"timer", "autoSave", "saveTimeout"}) =>
          /\ sessionStatus' = "paused"
          /\ sessionTime' = sessionTime]_vars

\* C23: whenever the summary is shown, every question of the assessment has
\* a recorded answer.
SummaryMeansAllAnswered ==
    showSummary =>
        \A i \in 1..Len(assessmentQuestions) :
            /\ assessmentQuestions[i].id \in DOMAIN answers
            /\ answers[assessmentQuestions[i].id] # ""

-----------------------------------------------------------------------------
(* QuestionGenerationAssessment: generateQuestionsFromConcepts, and the two
   assemblies of a question set side by side *)

outsideAssembly ==
    <<userPerformance, weakConcepts, strongConcepts, result, error, adjusted,
      pathwayVars, shuffleVars, currentQuestionIndex, answers, confidence,
      showValidation, isSubmitting, showSummary, sessionTime, sessionStatus,
      submitTimers, saveTimers, lastEvent, uploadVars, aiVars, effectVars>>

\* getDemoQuestions(), lines 468-500
DemoQuestions == [i \in 1..2 |-> [id |-> "demo_" \o ToString(i), number |-> i]]

\* generateQuestionsFromConcepts from its call to its await (lines 439-453)
GenerateQuestionsFromConcepts ==
    /\ pc = "mounted"
    /\ LET selectedConcepts == Slice0(Refs(concepts), 3)
       IN  questionPromises' =
              [r \in 1..Len(selectedConcepts) |->
                  Pending(GenerationRequest(concepts, selectedConcepts[r],
                     [questionCount |-> 3,
                      questionTypes |->
                         <<"multiple_choice", "true_false", "short_answer">>]))]
    /\ pc' = "generating"
    /\ UNCHANGED <<concepts, assessmentQuestions, outsideAssembly>>

\* every promise is fulfilled: the await resumes, lines 453-458
SetQuestions ==
    /\ pc = "generating"
    /\ PromiseAll(questionPromises) = "fulfilled"
    /\ LET questionSets ==
               [r \in 1..Len(questionPromises) |-> questionPromises[r].value]
           allQuestions == Flat(questionSets)
       IN  \E rnd \in RandomStreams(Len(allQuestions)) :
               assessmentQuestions' = ShuffleQuestions(allQuestions, rnd)
    /\ pc' = "shown"
    /\ UNCHANGED <<concepts, questionPromises, outsideAssembly>>

\* a call throws while the view awaits: the catch of lines 458-462
GenerationFails(r) ==
    /\ pc = "generating"
    /\ r \in 1..Len(questionPromises)
    /\ questionPromises[r].state = "pending"
    /\ questionPromises' = [questionPromises EXCEPT
            ![r].state = "rejected",
            ![r].reason = "Failed to generate questions for concept"]
    /\ assessmentQuestions' = DemoQuestions
    /\ pc' = "shown"
    /\ UNCHANGED <<concepts, outsideAssembly>>

\* the service's assembly for up to MaxJoinConcepts concepts, or the
\* view's for up to MaxAssemblyConcepts
InitAssembly ==
    \/ InitAdaptive
    \/ /\ \E n \in 1..MaxAssemblyConcepts : concepts = ConceptList(n)
       /\ userPerformance = <<>>
       /\ pc = "mounted"
       /\ weakConcepts = <<>>
       /\ strongConcepts = <<>>
       /\ questionPromises = <<>>
       /\ result = <<>>
       /\ error = ""
       /\ adjusted = ""
       /\ argConcepts = UndefinedValue
       /\ extracted = UndefinedValue
       /\ learningPathway = [pathway |-> <<>>]
       /\ ComponentsIdle

NextAssembly ==
    \/ GenerateAdaptiveQuestions
    \/ GenerateQuestionsFromConcepts
    \/ \E r \in 1..Len(questionPromises), k \in 0..MaxResp :
          pc # "mounted" /\ CallReturns(r, k)
    \/ \E r \in 1..Len(questionPromises) : pc # "mounted" /\ CallReturnsUndefined(r)
    \/ \E r \in 1..Len(questionPromises) : pc # "generating" /\ CallThrows(r)
    \/ \E r \in 1..Len(questionPromises) : GenerationFails(r)
    \/ ReturnQuestions
    \/ SetQuestions

SpecAssembly == InitAssembly /\ [][NextAssembly]_vars

\* what a call contributes to the joined list
ClaimedItems(promise) ==
    IF promise.value.isArray THEN promise.value.items ELSE <<Undefined>>

\* the results of the first n calls, one after the other
RECURSIVE ClaimedJoin(_, _)
ClaimedJoin(promises, n) ==
    IF n = 0 THEN <<>>
    ELSE ClaimedJoin(promises, n - 1) \o ClaimedItems(promises[n])

\* the list is a shuffle of the calls' results joined in call order
ShuffleOfJoin(list) ==
    LET joined == ClaimedJoin(questionPromises, Len(questionPromises))
    IN  \E rnd \in RandomStreams(Len(joined)) : list = ShuffleQuestions(joined, rnd)

\* C24: the calls of an assembly are all issued in one step, before any of
\* them has completed, and none is issued later; every pending call can
\* complete whatever the state of the others; and the list the assembly
\* ends with is the shuffle of the results joined in the order of the calls.
CallsIndependentJoinInOrder ==
    /\ [](\A r \in 1..Len(questionPromises) :
             questionPromises[r].state = "pending" => ENABLED CallReturns(r, 0))
    /\ [][/\ questionPromises = <<>> /\ questionPromises' # <<>> =>
                \A r \in 1..Len(questionPromises') :
                    questionPromises'[r].state = "pending"
          /\ questionPromises # <<>> =>
                Len(questionPromises') = Len(questionPromises)
          /\ pc = "awaiting" /\ pc' = "done" => ShuffleOfJoin(result')
          /\ pc = "generating" /\ pc' = "shown"
                /\ PromiseAll(questionPromises') = "fulfilled" =>
                ShuffleOfJoin(assessmentQuestions')]_vars

\* the view's three calls returned two, one and no question, and the three
\* questions were set
AssemblyWitness ==
    /\ pc = "shown"
    /\ Len(questionPromises) = 3
    /\ PromiseAll(questionPromises) = "fulfilled"
    /\ Len(questionPromises[1].value.items) = 2
    /\ Len(questionPromises[2].value.items) = 1
    /\ Len(assessmentQuestions) = 3
    /\ ShuffleOfJoin(assessmentQuestions)

-----------------------------------------------------------------------------
(* QuestionGenerationAssessment: the auto-save interval in time *)

\* setInterval(..., 30000), in seconds
AutoSaveSeconds == 30

outsideEffects ==
    <<concepts, userPerformance, pc, weakConcepts, strongConcepts,
      questionPromises, result, error, adjusted, pathwayVars, shuffleVars,
      uploadVars, aiVars>>

\* a dependency of the auto-save effect (line 527) differs from the value
\* the interval was set with: the effect is about to run again
EffectPending ==
    \/ autoSaveInterval.sessionStatus # sessionStatus
    \/ autoSaveInterval.answered # Cardinality(DOMAIN answers)

\* the auto-save effect runs again: its cleanup clears the interval and a
\* new one is set (lines 514-527)
AutoSaveEffectRuns ==
    /\ EffectPending
    /\ autoSaveInterval' = [sessionStatus |-> sessionStatus,
                            answered |-> Cardinality(DOMAIN answers),
                            age |-> 0]
    /\ lastEvent' = "autoSaveEffect"
    /\ UNCHANGED <<assessmentVars, mounted, eligibleAge, outsideEffects>>

\* one second passes without the interval coming due
SecondPasses ==
    /\ autoSaveInterval.age < AutoSaveSeconds
    /\ eligibleAge <= AutoSaveSeconds
    /\ autoSaveInterval' = [autoSaveInterval EXCEPT !.age = @ + 1]
    /\ eligibleAge' =
          IF sessionStatus = "active" /\ Cardinality(DOMAIN answers) > 0
          THEN eligibleAge + 1 ELSE 0
    /\ lastEvent' = "second"
    /\ UNCHANGED <<assessmentVars, mounted, outsideEffects>>

\* the callback of the auto-save interval when it comes due (lines 515-524),
\* with the values of the render the interval was set in
AutoSaveTick ==
    /\ autoSaveInterval.age = AutoSaveSeconds
    /\ IF autoSaveInterval.sessionStatus = "active" /\ autoSaveInterval.answered > 0
       THEN StartSaveCycle /\ eligibleAge' = 0
       ELSE UNCHANGED <<sessionStatus, saveTimers, eligibleAge>>
    /\ autoSaveInterval' = [autoSaveInterval EXCEPT !.age = 0]
    /\ lastEvent' = "autoSave"
    /\ UNCHANGED <<assessmentQuestions, currentQuestionIndex, answers, confidence,
                   showValidation, isSubmitting, showSummary, sessionTime,
                   submitTimers, mounted, outsideEffects>>

\* answering and navigating over two questions while time passes
InitAutoSave ==
    /\ ServicesIdle
    /\ assessmentQuestions = AssessmentQuestionList(2)
    /\ AssessmentMounted
    /\ UploadIdle
    /\ AiIdle

NextAutoSave ==
    \/ AutoSaveEffectRuns
    \/ /\ ~EffectPending
       /\ \/ HandleAnswerChange("a")
          \/ HandleNext
          \/ HandlePrevious
          \/ \E questionId \in QuestionIds : HandleQuestionSelect(questionId)
          \/ SecondPasses
          \/ AutoSaveTick
          \/ SaveTimeoutSaved
          \/ SaveTimeoutActive

SpecAutoSave == InitAutoSave /\ [][NextAutoSave]_vars

\* C25: while the session is active with an answer recorded, a save cycle
\* starts before more than AutoSaveSeconds have passed since the last one
\* (or since the session became so), whatever the user answers or navigates
\* to, and answering stays possible in every status.
AutoSaveEveryInterval ==
    /\ eligibleAge <= AutoSaveSeconds
    /\ ENABLED HandleAnswerChange("a")

-----------------------------------------------------------------------------
(* QuestionGenerationAssessment: teardown *)

\* the view is unmounted: the cleanups of the timer effect (line 510) and of
\* the auto-save effect (line 526) clear the two intervals; the timeouts of
\* the save cycles and of the submission are not cleared
Unmount ==
    /\ mounted
    /\ mounted' = FALSE
    /\ autoSaveInterval' = Null
    /\ lastEvent' = "unmount"
    /\ UNCHANGED <<assessmentVars, eligibleAge, outsideEffects>>

\* a timeout set before the unmount comes due: its callback runs, its state
\* updates are dropped by React, and the first timeout of a save cycle sets
\* the second one (lines 518-522, 601-605, 578-581)
CallbackAfterUnmount ==
    /\ ~mounted
    /\ \/ /\ saveTimers.saved > 0
          /\ saveTimers' = [saved |-> saveTimers.saved - 1,
                            active |-> saveTimers.active + 1]
          /\ lastEvent' = "saveTimeout"
          /\ UNCHANGED submitTimers
       \/ /\ saveTimers.active > 0
          /\ saveTimers' = [saveTimers EXCEPT !.active = @ - 1]
          /\ lastEvent' = "saveTimeout"
          /\ UNCHANGED submitTimers
       \/ /\ submitTimers > 0
          /\ submitTimers' = submitTimers - 1
          /\ lastEvent' = "submitted"
          /\ UNCHANGED saveTimers
    /\ UNCHANGED <<assessmentQuestions, currentQuestionIndex, answers, confidence,
                   showValidation, isSubmitting, showSummary, sessionTime,
                   sessionStatus, effectVars, outsideEffects>>

NextTeardown ==
    \/ mounted /\ NextSession
    \/ Unmount
    \/ CallbackAfterUnmount

SpecTeardown == InitSession /\ [][NextTeardown]_vars

\* C26: once the view is unmounted, no timer callback of the view runs: no
\* clock tick, no auto-save tick and no timeout of a save cycle.
NoCallbackAfterTeardown ==
    [][~mounted => lastEvent' \notin {"timer", "autoSave", "saveTimeout"}]_vars

-----------------------------------------------------------------------------
(* Further claims about the upload view *)

\* the changes of the processing step a run of the pipeline may make
ClaimedSteps ==
    {<<"", Analyzing>>, <<Complete, Analyzing>>,
     <<Analyzing, Extracting>>, <<Extracting, Creating>>, <<Creating, Complete>>,
     <<Analyzing, "">>, <<Extracting, "">>}

\* C27: the steps of the pipeline follow one another in the order analyze,
\* extract, create; a run in which the analysis or the extraction fails
\* writes nothing to session storage, sets no analysis result, schedules no
\* navigation, sets the error message and clears the processing step; and
\* the processing flag is set exactly while a run is under way.
UploadAllOrNothing ==
    /\ [](isProcessing <=> processingStep \in {Analyzing, Extracting, Creating})
    /\ [][/\ processingStep' # processingStep =>
                <<processingStep, processingStep'>> \in ClaimedSteps
          /\ (isProcessing /\ isProcessing') =>
                UNCHANGED <<sessionStorage, analysisResult, navigation>>
          /\ (isProcessing /\ lastEvent' \in {"analyzeFile", "extractConcepts"}
                           /\ processingStep' \notin {Extracting, Creating}) =>
                /\ UNCHANGED <<sessionStorage, analysisResult, navigation>>
                /\ error' = "Failed to process file. Please try again."
                /\ processingStep' = ""
                /\ ~isProcessing']_vars

\* the first run failed in the extraction
UploadFailureWitness ==
    /\ lastEvent = "extractConcepts"
    /\ Len(analyzeFileCalls) = 1
    /\ ~isProcessing
    /\ processingStep = ""
    /\ error = "Failed to process file. Please try again."
    /\ sessionStorage = <<>>
    /\ analysisResult = Null
    /\ navigation = Null

\* the fields createLearningPathway adds to the entries of the pathway
AddedFields == {"order", "isUnlocked", "dependencies"}

\* the upload view holds the pathway of the list it got from the extraction
PathwayOfUpload ==
    /\ argConcepts.isArray /\ Len(argConcepts.items) > 0
    /\ \/ pc = "done"
       \/ lastEvent = "handleFileUpload" /\ processingStep = Complete

\* C30: after createLearningPathway returns for a non-empty list the caller's
\* list holds the same concepts, with their own fields as they were and none
\* added, in the order of the pathway, whose entries are those concepts with
\* order, isUnlocked and dependencies added; the list the upload view then
\* stores as 'extractedConcepts' and hands to the assessment has that order.
ReordersCallersList ==
    PathwayOfUpload =>
        LET given == argConcepts.items
            held == extracted.items
            pathway == learningPathway.pathway
        IN  /\ extracted.isArray
            /\ Len(held) = Len(given) /\ Len(pathway) = Len(given)
            /\ \A i \in 1..Len(given) :
                  Cardinality({j \in 1..Len(held) : held[j] = given[i]}) = 1
            /\ \A j \in 1..Len(held) :
                  /\ DOMAIN held[j] \cap AddedFields = {}
                  /\ DOMAIN pathway[j] = DOMAIN held[j] \cup AddedFields
                  /\ \A f \in DOMAIN held[j] : pathway[j][f] = held[j][f]
            /\ processingStep = Complete =>
                  /\ sessionStorage.extractedConcepts = JsonStringify(extracted)
                  /\ sessionStorage.learningPathway = JsonStringify(learningPathway)
                  /\ navigation.concepts = extracted
                  /\ navigation.learningPathway = learningPathway
                  /\ \A j \in 1..Len(pathway) :
                        sessionStorage.extractedConcepts.json.items[j].id
                            = sessionStorage.learningPathway.json.pathway[j].id

\* an upload ended with a stored list of three concepts whose order is the
\* reverse of the order the extraction gave
ReorderWitness ==
    /\ PathwayOfUpload
    /\ processingStep = Complete
    /\ Len(argConcepts.items) = 3
    /\ \A j \in 1..3 :
          sessionStorage.extractedConcepts.json.items[j] = argConcepts.items[4 - j]
    /\ navigation.concepts.items[1].id = learningPathway.pathway[1].id
    /\ learningPathway.pathway[1].id # argConcepts.items[1].id

\* C29: while the summary is shown the elapsed time does not change.
SummaryTimeFrozen ==
    [][(showSummary /\ showSummary') => sessionTime' = sessionTime]_vars

-----------------------------------------------------------------------------
(* Further claims about the services *)

\* C28: within one generateAdaptiveQuestions call no concept is the subject
\* of two generation requests: the concepts of the weak-area, mixed and
\* strong-area requests are pairwise distinct.
OneRequestPerConcept ==
    pc # "start" =>
        \A i, j \in 1..Len(questionPromises) :
            i # j => questionPromises[i].request.concept
                        # questionPromises[j].request.concept

====
